---- MODULE Spec2Model ----
(***************************************************************************)
(* Model of the web2mcp discovery crawler (spaCrawler.ts with               *)
(* sharedUtils.ts): the path-addressed traversal of main, the three         *)
(* extractors, the navigation/modal discriminator and the synthesis of      *)
(* CRUD records.                                                            *)
(*                                                                          *)
(* Strings are sequences of tokens.  A token is an indivisible piece of     *)
(* text; String.includes is the search for a contiguous run of tokens and   *)
(* String.toLowerCase maps every token to its lower-case form.  The         *)
(* browser, the page inspection oracle (observe) and the action oracle      *)
(* (act) are the environment: every answer they give is a nondeterministic  *)
(* choice from a bounded vocabulary.                                        *)
(***************************************************************************)
EXTENDS Integers, Sequences, FiniteSets, TLC

VARIABLES
    pc,                 \* position of main in its loop body
    maxDepth,           \* config.maxDepth
    queue,              \* main: queue of QueueItem
    seen_set,           \* main: set of path hashes
    crud_operations,    \* main: the corpus
    current_path,       \* main: path of the item being processed
    depth,              \* main: depth of the item being processed
    formData,           \* main: result of the page-level extractFormData
    clickableElements,  \* main: result of extractClickableElements
    navigationElements, \* testNavigationAndModals: local result list
    modalOperations,    \* testNavigationAndModals: local result list
    idx,                \* testNavigationAndModals: index of the element under test
    tpc,                \* testNavigationAndModals: position inside one test
    et,                 \* activation record of extractTabularData
    ef,                 \* activation record of extractFormData
    observed,           \* environment: number of elements the oracle has reported
    processed,          \* history: the paths dequeued once, those dequeued again,
                        \* and whether a path replay of main has thrown
    rootReport,         \* history: what the oracle reported for the root state
    reported,           \* history: nested input answers given to a unit call
    unitOut,            \* unit harness: last result of determineFormOperation
    outputSummaryPageActions, \* the file outputSummaryPageActions.json
    outputMcpConfig,    \* the file outputMcpConfig.json
    page,               \* environment: what the crawler's browser session shows
    calls,              \* history: the browser calls of the last path replay, or
                        \* of the test of the last clickable
    inflight,           \* the browser calls issued and not yet completed
    dpc,                \* dispatcher: position of main of dynamicMcpServer.ts
    client,             \* dispatcher: who drives the DynamicMcpServer object
    loadedConfig,       \* DynamicMcpServer.loadedConfig
    registeredTools,    \* DynamicMcpServer.registeredTools
    serverTools,        \* the handlers registered with the McpServer
    pageActions,        \* DynamicMcpServer.pageActions
    inv,                \* the tool invocations in flight, by request
    stdout,             \* the diagnostics written to standard output
    stderr              \* the diagnostics of the loading written to standard error

vars == <<pc, maxDepth, queue, seen_set, crud_operations, current_path, depth,
          formData, clickableElements, navigationElements, modalOperations,
          idx, tpc, et, ef, observed, processed, rootReport, reported, unitOut,
          outputSummaryPageActions, outputMcpConfig, page, calls, inflight, dpc, client, loadedConfig, registeredTools,
          serverTools, pageActions, inv, stdout, stderr>>

browserVars == <<page, calls, inflight>>

serverVars == <<dpc, client, loadedConfig, registeredTools, serverTools,
                pageActions, inv, stdout, stderr>>

(***************************************************************************)
(* Bounds of the model.                                                     *)
(***************************************************************************)
\* largest configured maximum depth explored
MaxDepthBound == 2
\* total number of elements the oracle reports during one run
MaxObserved == 4
\* longest list one observe call returns
MaxList == 2
\* largest number of tool declarations in a configuration artifact
MaxTools == 3
\* largest number of records in a page action artifact
MaxCorpus == 2

(***************************************************************************)
(* Strings.                                                                 *)
(***************************************************************************)
LowerTok(t) ==
    CASE t = "#A" -> "#a"
      [] t = "Table" -> "table"
      [] t = "Delete" -> "delete"
      [] OTHER -> t

toLowerCase(s) == [i \in DOMAIN s |-> LowerTok(s[i])]

includes(s, w) ==
    \E i \in 1..(Len(s) - Len(w) + 1) : SubSeq(s, i, i + Len(w) - 1) = w

RECURSIVE Flatten(_)
Flatten(ss) == IF ss = <<>> THEN <<>> ELSE Head(ss) \o Flatten(Tail(ss))

\* JSON.stringify of one PathObject
StringifyStep(step) ==
    <<"{", "\"intra_page_path\":", "\"">> \o step.intra_page_path
        \o <<"\"", ",", "\"is_new_link\":",
             IF step.is_new_link THEN "true" ELSE "false", "}">>

\* JSON.stringify of a PathObject[]
JSONstringify(path) ==
    <<"[">> \o Flatten([i \in DOMAIN path |->
                  (IF i > 1 THEN <<",">> ELSE <<>>) \o StringifyStep(path[i])])
        \o <<"]">>

\* crypto.createHash('md5').update(text).digest('hex'): md5 is taken to be
\* collision free, so a digest is the tagged text that was digested.
Md5Hex(text) == [md5 |-> text]

page_hash(url) == Md5Hex(toLowerCase(url))

(***************************************************************************)
(* Vocabulary of the environment.                                           *)
(***************************************************************************)
\* the selectors the oracle reports: two of them differ in case only
Selectors == {<<"#a">>, <<"#A">>, <<"#b">>}

Step(sel, isNew) == [intra_page_path |-> sel, is_new_link |-> isNew]

\* all lists of at most n elements of S
ListsUpTo(S, n) == UNION {[1..k -> S] : k \in 0..n}

Elem(sel, desc) == [selector |-> sel, description |-> desc]


\* an answer of stagehand.page.observe: a list of elements, or an exception
Answer(list) == [threw |-> FALSE, elems |-> list]
Throw == [threw |-> TRUE, elems |-> <<>>]

\* the answers the oracle may still give for elements drawn from S
Answers(S) ==
    {Answer(l) : l \in {m \in ListsUpTo(S, MaxList) : observed + Len(m) <= MaxObserved}}
        \cup {Throw}

\* the answers to a query of which only the presence of an element counts
\* (visible modal elements, close buttons): an exception, no element, or one
PresenceAnswers ==
    {"throw", "none"} \cup (IF observed < MaxObserved THEN {"some"} ELSE {})

Reported(r) == IF r = "some" THEN 1 ELSE 0

(***************************************************************************)
(* extractTabularData                                                       *)
(***************************************************************************)
TabElems ==
    {Elem(<<"#a">>, <<"Table">>), Elem(<<"#b">>, <<"list", " ", "of", " ", "users">>)}

kw(word) == <<word>>
ListOf == <<"list", " ", "of">>

\* type of a container of the first query
ContainerType(container) ==
    LET description == toLowerCase(container.description) IN
    IF includes(description, kw("table")) \/ includes(container.selector, kw("table"))
    THEN "table"
    ELSE IF includes(description, kw("list"))
            \/ includes(container.selector, kw("ul"))
            \/ includes(container.selector, kw("ol"))
    THEN "list"
    ELSE IF includes(description, kw("grid"))
            \/ includes(description, kw("row"))
            \/ includes(description, kw("collection"))
    THEN "grid"
    ELSE "card"

\* "Only add if it's likely a container with multiple items"
LikelyContainer(container) ==
    LET description == toLowerCase(container.description) IN
       \/ includes(description, kw("multiple"))
       \/ includes(description, ListOf)
       \/ includes(description, kw("collection"))
       \/ includes(description, kw("table"))
       \/ includes(description, kw("grid"))
       \/ includes(description, kw("items"))
       \/ includes(description, kw("cards"))

\* type of an element of the second query
CollectionType(element) ==
    LET description == toLowerCase(element.description) IN
    IF includes(description, kw("table")) THEN "table"
    ELSE IF includes(description, kw("list")) THEN "list"
    ELSE IF includes(description, kw("grid")) \/ includes(description, kw("row"))
    THEN "grid"
    ELSE "card"

\* "Only add if it's clearly a collection container"
ClearlyCollection(element) ==
    LET description == toLowerCase(element.description) IN
       \/ includes(description, ListOf)
       \/ includes(description, kw("collection"))
       \/ includes(description, kw("multiple"))
       \/ includes(description, kw("items"))
       \/ includes(description, kw("emails"))
       \/ includes(description, kw("products"))
       \/ includes(description, kw("users"))
       \/ includes(description, kw("posts"))
       \/ includes(description, kw("articles"))

TableData(element, type) ==
    [selector |-> element.selector, type |-> type,
     textContent |-> element.description, elementCount |-> 1]

\* the seenSelectors test of both passes, without the test
TabUnseen_NoDedup(seen, selector) == TRUE

\* "Check for duplicates" / "Skip if already captured"
TabUnseen(seen, selector) == selector \notin seen

\* containers.forEach(...) of the first query
RECURSIVE TabPass1(_, _)
TabPass1(containers, acc) ==
    IF containers = <<>> THEN acc
    ELSE LET c == Head(containers) IN
         IF LikelyContainer(c) /\ TabUnseen(acc.seenSelectors, c.selector)
         THEN TabPass1(Tail(containers),
                  [tabularData |-> Append(acc.tabularData, TableData(c, ContainerType(c))),
                   seenSelectors |-> acc.seenSelectors \cup {c.selector}])
         ELSE TabPass1(Tail(containers), acc)

\* dataCollections.forEach(...) of the second query
RECURSIVE TabPass2(_, _)
TabPass2(elements, acc) ==
    IF elements = <<>> THEN acc
    ELSE LET e == Head(elements) IN
         IF TabUnseen(acc.seenSelectors, e.selector) /\ ClearlyCollection(e)
         THEN TabPass2(Tail(elements),
                  [tabularData |-> Append(acc.tabularData, TableData(e, CollectionType(e))),
                   seenSelectors |-> acc.seenSelectors \cup {e.selector}])
         ELSE TabPass2(Tail(elements), acc)

\* the READ record main pushes for one TableData
ReadRecord(data, path) ==
    [operation |-> "READ", type |-> data.type, selector |-> data.selector,
     elementCount |-> data.elementCount, path |-> path]

ReadRecords(tabularData, path) ==
    [i \in DOMAIN tabularData |-> ReadRecord(tabularData[i], path)]

(***************************************************************************)
(* determineFormOperation and the classifiers of extractFormData            *)
(***************************************************************************)
FormTypes == {"form", "search", "login", "registration", "contact", "settings",
              "checkout", "feedback", "newsletter", "filter", "delete", "remove",
              "unsubscribe", "other"}

determineFormOperation_DeleteAsCreate(formType) ==
    CASE formType \in {"search", "filter"} -> "READ"
      [] formType \in {"remove", "unsubscribe"} -> "DELETE"
      [] formType \in {"login", "registration", "contact", "feedback",
                       "newsletter", "checkout"} -> "CREATE"
      [] formType = "settings" -> "UPDATE"
      [] OTHER -> "CREATE"

determineFormOperation(formType) ==
    CASE formType \in {"search", "filter"} -> "READ"
      [] formType \in {"delete", "remove", "unsubscribe"} -> "DELETE"
      [] formType \in {"login", "registration", "contact", "feedback",
                       "newsletter", "checkout"} -> "CREATE"
      [] formType = "settings" -> "UPDATE"
      [] OTHER -> "CREATE"

has(description, word) == includes(description, kw(word))
Unsubscribe == <<"un", "subscribe">>
CancelSubscription == <<"cancel", " ", "subscription">>
SignIn == <<"sign", " ", "in">>
SignUp == <<"sign", " ", "up">>

\* form type of a container of the primary pass
PrimaryFormType(form) ==
    LET description == toLowerCase(form.description) IN
    IF has(description, "login") \/ includes(description, SignIn)
            \/ has(description, "signin")
    THEN "login"
    ELSE IF has(description, "register") \/ includes(description, SignUp)
            \/ has(description, "signup")
    THEN "registration"
    ELSE IF has(description, "search") \/ has(description, "find")
    THEN "search"
    ELSE IF has(description, "contact") \/ has(description, "message")
            \/ has(description, "support")
    THEN "contact"
    ELSE IF has(description, "settings") \/ has(description, "preferences")
            \/ has(description, "profile")
    THEN "settings"
    ELSE IF has(description, "checkout") \/ has(description, "payment")
            \/ has(description, "order")
    THEN "checkout"
    ELSE IF has(description, "feedback") \/ has(description, "review")
            \/ has(description, "rating")
    THEN "feedback"
    ELSE IF has(description, "newsletter") \/ has(description, "subscribe")
    THEN "newsletter"
    ELSE IF has(description, "filter") \/ has(description, "sort")
            \/ has(description, "refine")
    THEN "filter"
    ELSE IF has(description, "delete") \/ has(description, "remove")
            \/ has(description, "trash")
    THEN "delete"
    ELSE IF includes(description, Unsubscribe)
            \/ includes(description, CancelSubscription)
    THEN "unsubscribe"
    ELSE "other"

\* form type of an input group of the second pass
GroupFormType(group) ==
    LET description == toLowerCase(group.description) IN
    IF has(description, "search") THEN "search"
    ELSE IF has(description, "filter") THEN "filter"
    ELSE "other"

\* "Only consider groups that contain multiple inputs or are clearly form-like"
FormLikeGroup(group) ==
    LET description == toLowerCase(group.description) IN
       \/ has(description, "input") \/ has(description, "search")
       \/ has(description, "filter") \/ has(description, "form")

\* isSearchRelated of the third pass
isSearchRelated(searchElement) ==
    LET description == toLowerCase(searchElement.description) IN
       \/ has(description, "search") \/ has(description, "find")
       \/ has(description, "filter")
       \/ has(searchElement.selector, "search")
       \/ (has(description, "placeholder") /\ has(description, "search"))

\* input type of the primary pass
PrimaryInputType(input) ==
    LET inputDesc == toLowerCase(input.description)
        selector == input.selector IN
    IF has(inputDesc, "password") \/ has(selector, "password") THEN "password"
    ELSE IF has(inputDesc, "phone") \/ has(selector, "tel") \/ has(selector, "phone")
    THEN "tel"
    ELSE IF has(inputDesc, "number") \/ has(selector, "number") THEN "number"
    ELSE IF has(inputDesc, "url") \/ has(selector, "url") THEN "url"
    ELSE IF has(inputDesc, "search") \/ has(selector, "search") THEN "search"
    ELSE IF has(inputDesc, "textarea") \/ has(selector, "textarea") THEN "textarea"
    ELSE IF has(inputDesc, "select") \/ has(selector, "select")
            \/ has(inputDesc, "dropdown") \/ has(inputDesc, "menu")
    THEN "select"
    ELSE IF has(inputDesc, "checkbox") THEN "checkbox"
    ELSE IF has(inputDesc, "radio") THEN "radio"
    ELSE IF has(inputDesc, "file") \/ has(selector, "file") THEN "file"
    ELSE IF has(inputDesc, "date") \/ has(selector, "date") THEN "date"
    ELSE IF has(inputDesc, "time") \/ has(selector, "time") THEN "time"
    ELSE IF has(inputDesc, "submit") \/ has(inputDesc, "button")
            \/ has(selector, "submit") \/ has(selector, "button")
    THEN "submit"
    ELSE IF has(inputDesc, "hidden") THEN "hidden"
    ELSE "text"

\* input type of the second pass
GroupInputType(input) ==
    LET inputDesc == toLowerCase(input.description) IN
    IF has(inputDesc, "search") THEN "search"
    ELSE IF has(inputDesc, "email") THEN "email"
    ELSE IF has(inputDesc, "password") THEN "password"
    ELSE IF has(inputDesc, "submit") \/ has(inputDesc, "button") THEN "submit"
    ELSE "text"

\* input type of the third pass
SearchInputType(input) ==
    LET inputDesc == toLowerCase(input.description) IN
    IF has(inputDesc, "submit") \/ has(inputDesc, "button") THEN "submit"
    ELSE "search"

\* the FormInput pushed for one reported input; pass is 1, 2 or 3
FormInput(input, pass) ==
    LET inputDesc == toLowerCase(input.description) IN
    [selector |-> input.selector,
     type |-> CASE pass = 1 -> PrimaryInputType(input)
                [] pass = 2 -> GroupInputType(input)
                [] OTHER -> SearchInputType(input),
     description |-> input.description,
     required |-> IF pass = 1
                  THEN has(inputDesc, "required") \/ has(inputDesc, "mandatory")
                  ELSE has(inputDesc, "required"),
     placeholder |-> IF pass = 1 /\ (has(inputDesc, "placeholder") \/ has(inputDesc, "hint"))
                     THEN <<"Has placeholder">> ELSE <<>>,
     label |-> IF pass = 1 /\ (has(inputDesc, "label") \/ has(inputDesc, "title"))
               THEN <<"Has label">> ELSE <<>>,
     options |-> <<>>]

\* the usedInputSelectors test, without the test
InputUnused_NoDedup(used, selector) == TRUE

\* "Skip if this input selector has already been used in another form"
InputUnused(used, selector) == selector \notin used

\* for (const input of formInputs) { ... } of the three passes
RECURSIVE CollectInputs(_, _, _)
CollectInputs(reportedInputs, pass, acc) ==
    IF reportedInputs = <<>> THEN acc
    ELSE LET input == Head(reportedInputs) IN
         IF InputUnused(acc.used, input.selector)
         THEN CollectInputs(Tail(reportedInputs), pass,
                  [inputs |-> Append(acc.inputs, FormInput(input, pass)),
                   used |-> acc.used \cup {input.selector}])
         ELSE CollectInputs(Tail(reportedInputs), pass, acc)

\* form type of a retained container; pass is 1, 2 or 3
ContainerFormType(container, pass) ==
    CASE pass = 1 -> PrimaryFormType(container)
      [] pass = 2 -> GroupFormType(container)
      [] OTHER -> "search"

\* the FormData pushed for a container with its collected inputs
FormEntity(container, pass, inputs) ==
    [selector |-> container.selector,
     type |-> ContainerFormType(container, pass),
     inputs |-> inputs,
     textContent |-> container.description,
     elementCount |-> Len(inputs),
     operation |-> determineFormOperation(ContainerFormType(container, pass))]

\* a container pushed whatever its inputs
Retained_Always(inputs) == TRUE

\* "Only add forms that have inputs"
Retained(inputs) == Len(inputs) > 0

\* whether a reported container gets its nested input query; pass is 1, 2 or 3
Queried(container, pass, seen) ==
    /\ container.selector \notin seen
    /\ CASE pass = 1 -> TRUE
         [] pass = 2 -> FormLikeGroup(container)
         [] OTHER -> isSearchRelated(container)

\* the synchronous part of a container loop up to its next nested query:
\* containers that are skipped without an oracle call are dropped
RECURSIVE SkipToQueried(_, _, _)
SkipToQueried(containers, pass, seen) ==
    IF containers = <<>> THEN <<>>
    ELSE IF Queried(Head(containers), pass, seen) THEN containers
    ELSE SkipToQueried(Tail(containers), pass, seen)

\* the record main pushes for one FormData
FormInputSummary(input) ==
    [type |-> input.type, required |-> input.required,
     placeholder |-> input.placeholder,
     label |-> IF input.label # <<>> THEN input.label ELSE input.description,
     options |-> input.options]

FormRecord(form, path) ==
    [operation |-> form.operation, type |-> form.type, selector |-> form.selector,
     elementCount |-> form.elementCount,
     inputs |-> [i \in DOMAIN form.inputs |-> FormInputSummary(form.inputs[i])],
     path |-> path]

FormRecords(forms, path) == [i \in DOMAIN forms |-> FormRecord(forms[i], path)]

(***************************************************************************)
(* extractClickableElements                                                 *)
(***************************************************************************)
Quotes == {"'", "\""}

\* description.match(/key["']([^"']+)["']/)[1], or <<>> when there is no match
MatchQuoted(description, key) ==
    LET closes(i) == {j \in (i + 3)..Len(description) :
                        /\ description[j] \in Quotes
                        /\ \A k \in (i + 2)..(j - 1) : description[k] \notin Quotes}
        starts == {i \in 1..(Len(description) - 3) :
                        /\ description[i] = key
                        /\ description[i + 1] \in Quotes
                        /\ closes(i) # {}}
    IN IF starts = {} THEN <<>>
       ELSE LET i == CHOOSE x \in starts : \A y \in starts : x <= y
                j == CHOOSE x \in closes(i) : \A y \in closes(i) : x <= y
            IN SubSeq(description, i + 2, j - 1)

AHref == <<"a", "[", "href">>

ClickableType(element) ==
    LET description == toLowerCase(element.description) IN
    IF includes(element.selector, AHref) \/ has(description, "link")
            \/ has(description, "href")
    THEN "link"
    ELSE IF has(element.selector, "button") \/ has(description, "button")
    THEN "button"
    ELSE "other"

ClickableHref(element) ==
    LET description == toLowerCase(element.description) IN
    IF ClickableType(element) = "link" /\ has(description, "href=")
    THEN MatchQuoted(description, "href=")
    ELSE <<>>

ClickableText(element) ==
    LET description == toLowerCase(element.description) IN
    IF has(description, "text=") /\ MatchQuoted(description, "text=") # <<>>
    THEN MatchQuoted(description, "text=")
    ELSE element.description

LogOut == <<"log", " ", "out">>
SignOut == <<"sign", " ", "out">>

isLogoutElement(element) ==
    LET description == toLowerCase(element.description)
        text == toLowerCase(ClickableText(element)) IN
       \/ has(description, "logout") \/ includes(description, LogOut)
       \/ includes(description, SignOut) \/ has(description, "signout")
       \/ has(text, "logout") \/ includes(text, LogOut)
       \/ includes(text, SignOut) \/ has(text, "signout")

ClearlyClickable(element) ==
    LET description == toLowerCase(element.description) IN
       \/ ClickableType(element) # "other"
       \/ has(description, "click") \/ has(description, "button")
       \/ has(description, "link")

ClickableElement(element) ==
    [selector |-> element.selector, type |-> ClickableType(element),
     text |-> ClickableText(element), href |-> ClickableHref(element),
     description |-> element.description]

\* for (const element of clickables) { ... }
RECURSIVE ClickPass(_, _, _)
ClickPass(clickables, formInputSelectors, acc) ==
    IF clickables = <<>> THEN acc
    ELSE LET e == Head(clickables) IN
         IF /\ e.selector \notin acc.seenSelectors
            /\ ~isLogoutElement(e)
            /\ e.selector \notin formInputSelectors
            /\ ClearlyClickable(e)
         THEN ClickPass(Tail(clickables), formInputSelectors,
                  [clickableElements |-> Append(acc.clickableElements, ClickableElement(e)),
                   seenSelectors |-> acc.seenSelectors \cup {e.selector}])
         ELSE ClickPass(Tail(clickables), formInputSelectors, acc)

extractClickableElements(answer, formInputSelectors) ==
    IF answer.threw THEN <<>>
    ELSE ClickPass(answer.elems, formInputSelectors,
             [clickableElements |-> <<>>, seenSelectors |-> {}]).clickableElements

(***************************************************************************)
(* main: the sets handed to the later passes, the synthesis of modal        *)
(* records and the growth of the frontier                                   *)
(***************************************************************************)
\* formInputSelectors built from the first input of each form only
FormInputSelectorsOf_FirstInput(forms) ==
    {forms[i].inputs[1].selector : i \in {n \in DOMAIN forms : forms[n].inputs # <<>>}}
        \ {<<>>}

\* formInputSelectors: "if (input.selector)" keeps the non-empty selectors
FormInputSelectorsOf(forms) ==
    UNION {{forms[i].inputs[j].selector : j \in DOMAIN forms[i].inputs} \ {<<>>}
           : i \in DOMAIN forms}

\* existingFormSelectors
FormSelectorsOf(forms) == {forms[i].selector : i \in DOMAIN forms}

\* modalPath with the flag of a navigation step
ModalPath_AsNavigation(path, modalOp) == Append(path, Step(modalOp.trigger.selector, TRUE))

\* modalPath of a modal operation
ModalPath(path, modalOp) == Append(path, Step(modalOp.trigger.selector, FALSE))

\* modalOperations.forEach(modalOp => modalOp.forms.forEach(...))
RECURSIVE ModalRecords(_, _)
ModalRecords(modalOps, path) ==
    IF modalOps = <<>> THEN <<>>
    ELSE FormRecords(Head(modalOps).forms, ModalPath(path, Head(modalOps)))
            \o ModalRecords(Tail(modalOps), path)

\* newPath without the steps of the current path
NewPath_Alone(path, element) == <<Step(element.selector, TRUE)>>

\* newPath of a navigation element
NewPath(path, element) == Append(path, Step(element.selector, TRUE))

\* the value of parseInt for a text that does not start with a number, kept
\* apart from the integers
NaN == 0 - 2

\* a < b of two numbers: false when one of them is NaN
Less(a, b) == a # NaN /\ b # NaN /\ a < b

\* config.maxDepth for the values SPA_CRAWLER_MAX_DEPTH may have: not a
\* number, a negative number, zero or more
ParsedDepths == {NaN, 0 - 1} \cup (0..MaxDepthBound)

\* the guard of the enqueue block, off by one
DepthAllows_Inclusive(d, max) == d <= max

\* "if (depth < config.maxDepth)"
DepthAllows(d, max) == Less(d, max)

\* "if (!seen_set.has(pathHash))"
NotSeen(seen, pathHash) == pathHash \notin seen

\* seen_set.add(pathHash) that forgets the hashes recorded before
AddSeen_Replace(seen, pathHash) == {pathHash}

\* the set after seen_set.add(pathHash)
AddSeen(seen, pathHash) == seen \cup {pathHash}

\* queue.shift() that leaves the item in the queue
Shift_Keep(q) == q

\* the queue after queue.shift()
Shift(q) == Tail(q)

\* an insertion at the front or at the back, by the length of the queue
Unshift_Mixed(q, item) == IF Len(q) = 1 THEN Append(q, item) ELSE <<item>> \o q

\* queue.unshift(item)
Unshift(q, item) == <<item>> \o q

\* for (const element of navigationElements) { ... } of the enqueue block
RECURSIVE EnqueueAll(_, _, _, _)
EnqueueAll(elements, path, d, acc) ==
    IF elements = <<>> THEN acc
    ELSE LET newPath == NewPath(path, Head(elements))
             pathHash == page_hash(JSONstringify(newPath))
         IN IF NotSeen(acc.seen_set, pathHash)
            THEN EnqueueAll(Tail(elements), path, d,
                     [seen_set |-> AddSeen(acc.seen_set, pathHash),
                      queue |-> Unshift(acc.queue, [path |-> newPath, depth |-> d + 1])])
            ELSE EnqueueAll(Tail(elements), path, d, acc)

\* the enqueue block of main
Enqueue(elements, path, d, max, acc) ==
    IF DepthAllows(d, max) THEN EnqueueAll(elements, path, d, acc) ELSE acc

(***************************************************************************)
(* What the oracle may report.                                              *)
(***************************************************************************)
UnitFormDescriptions ==
    {<<"login">>, <<"sign", " ", "in">>, <<"register">>, <<"registration">>,
     <<"find">>, <<"contact">>, <<"settings">>, <<"checkout">>, <<"feedback">>,
     <<"newsletter">>, <<"filter">>, <<"remove">>, <<"un", "subscribe">>,
     <<"cancel", " ", "subscription">>, <<"form">>, <<"other">>}

FormElems ==
    {Elem(<<"#a">>, <<"Delete", " ", "item">>), Elem(<<"#b">>, <<"search">>)}

\* the answers of a container query: in the unit harness a container of any
\* form type may be reported, alone
FormAnswers ==
    Answers(FormElems)
        \cup (IF ef.caller = "unit" /\ observed < MaxObserved
              THEN {Answer(<<Elem(<<"#a">>, d)>>) : d \in UnitFormDescriptions}
              ELSE {})

InputElems ==
    {Elem(<<"#a">>, <<"email">>),
     Elem(<<"#b">>, <<"submit", " ", "button", " ", "required">>)}

ClickElems ==
    {Elem(<<"#a">>, <<"button">>), Elem(<<"#A">>, <<"button">>),
     Elem(<<"#b">>, <<"logout", " ", "link">>)}

\* what the query for close controls may report first
CloseElems ==
    {Elem(<<"#a">>, <<"close", " ", "button">>),
     Elem(<<"#b">>, <<"cancel", " ", "logout", " ", "button">>)}

(***************************************************************************)
(* State.                                                                   *)
(***************************************************************************)
EtIdle == [tabularData |-> <<>>, seenSelectors |-> {}]

EfIdle ==
    [pc |-> "idle", caller |-> "none", pass |-> 0, formData |-> <<>>,
     seenSelectors |-> {}, usedInputSelectors |-> {}, pending |-> <<>>,
     threw |-> FALSE]

\* entry of extractFormData that drops existingFormSelectors
EfCall_Fresh(caller, existingFormSelectors) ==
    [EfIdle EXCEPT !.pc = "modalq", !.caller = caller]

\* entry of extractFormData(stagehand, existingFormSelectors)
EfCall(caller, existingFormSelectors) ==
    [EfIdle EXCEPT !.pc = "modalq", !.caller = caller,
                   !.seenSelectors = existingFormSelectors]

NoUnitOut == [formType |-> "none", operation |-> "none"]

\* outputSummaryPageActions.json before any run has written it
NoFile == [written |-> FALSE, records |-> <<>>]

\* null, and a value that is not null
None == <<>>
Some(x) == <<x>>

\* one tool invocation that has not arrived
InvIdle ==
    [pc |-> "idle", name |-> "none", toolConfig |-> None, answer |-> None,
     selectedIndex |-> None, pageAction |-> None, step |-> 0,
     session |-> "none", events |-> <<>>, result |-> None]

\* the requests a client may have in flight
Requests == {"r1", "r2"}

\* the dispatcher process is not running
ServerOff ==
    /\ dpc = "off"
    /\ client = "none"
    /\ loadedConfig = None
    /\ registeredTools = {}
    /\ serverTools = <<>>
    /\ pageActions = <<>>
    /\ inv = [r \in Requests |-> InvIdle]
    /\ stdout = {}
    /\ stderr = {}

RootItem == [path |-> <<>>, depth |-> 0]

\* the session shows the state being processed: the address main or the
\* discriminator recorded, and no overlay
AtState == [url |-> "state", overlay |-> FALSE]

\* one call of the browser or of an oracle, and how it ended
Call(op, target, description, result) ==
    [op |-> op, target |-> target, description |-> description, result |-> result]

\* the crawler before the first iteration of its loop
CrawlerStart ==
    /\ queue = <<RootItem>>
    /\ seen_set = {page_hash(JSONstringify(<<>>))}
    /\ crud_operations = <<>>
    /\ current_path = <<>>
    /\ depth = 0
    /\ formData = <<>>
    /\ clickableElements = <<>>
    /\ navigationElements = <<>>
    /\ modalOperations = <<>>
    /\ idx = 0
    /\ tpc = "idle"
    /\ et = EtIdle
    /\ ef = EfIdle
    /\ observed = 0
    /\ processed = [once |-> {}, again |-> {}, failed |-> FALSE]
    /\ rootReport = [first |-> {}, firstLikely |-> {}, second |-> {}, quiet |-> TRUE]
    /\ reported = <<>>
    /\ unitOut = NoUnitOut
    /\ outputSummaryPageActions = NoFile
    /\ outputMcpConfig = "none"
    /\ page = AtState
    /\ calls = <<>>
    /\ inflight = {}

InitCommon ==
    /\ maxDepth \in 0..MaxDepthBound
    /\ CrawlerStart
    /\ ServerOff

\* main after initializeStagehand and login, at the head of the crawling loop
Init == InitCommon /\ pc = "dequeue"

mainVars == <<maxDepth, queue, seen_set, crud_operations, current_path, depth,
              formData, clickableElements, processed, unitOut>>

SelectorsOf(elems) == {elems[i].selector : i \in DOMAIN elems}

\* the root report of every run in which the root state showed anything but
\* one likely container to the first collection query
OtherRoot == [first |-> {}, firstLikely |-> {}, second |-> {}, quiet |-> FALSE]

\* report r shows one likely container, in the first collection query, and
\* nothing else
OneContainerOnly(r) ==
    /\ Cardinality(r.first) = 1
    /\ r.firstLikely = r.first
    /\ r.second \subseteq r.first
    /\ r.quiet

\* a root report is kept in detail only while it shows one container only
Track(r) == IF OneContainerOnly(r) THEN r ELSE OtherRoot

\* the root report after a form, input or clickable query answered with elems
NotQuiet(elems) ==
    IF current_path = <<>> /\ elems # <<>> THEN OtherRoot ELSE rootReport

testVars == <<navigationElements, modalOperations, idx, tpc>>

(***************************************************************************)
(* navigate_to_page of sharedUtils.ts                                       *)
(***************************************************************************)
\* the click of one step of a path
StepCall(pathStep, result) ==
    Call("act", pathStep.intra_page_path, <<>>, result)

\* navigate_to_page that logs the error of a step and goes on with the next
navigate_to_page_GoesOn(rootUrl, new_path, failAt) ==
    IF failAt = 0 THEN <<Call("goto", rootUrl, <<>>, "threw")>>
    ELSE <<Call("goto", rootUrl, <<>>, "returned")>>
            \o [i \in DOMAIN new_path |->
                   StepCall(new_path[i], IF i = failAt THEN "threw" ELSE "returned")]

\* the calls navigate_to_page(stagehand, rootUrl, new_path) makes when call
\* number failAt throws (0: the goto, i: the click of step i, none beyond the
\* path); the last call threw exactly when the function throws
navigate_to_page(rootUrl, new_path, failAt) ==
    IF failAt = 0 THEN <<Call("goto", rootUrl, <<>>, "threw")>>
    ELSE LET attempted == IF failAt <= Len(new_path) THEN failAt ELSE Len(new_path)
         IN <<Call("goto", rootUrl, <<>>, "returned")>>
               \o [i \in 1..attempted |->
                      StepCall(new_path[i], IF i = failAt THEN "threw" ELSE "returned")]

Threw(replay) == replay[Len(replay)].result = "threw"

(***************************************************************************)
(* main: the crawling loop                                                  *)
(***************************************************************************)
\* queue.shift() and a navigate_to_page that returns
Dequeue ==
    /\ pc = "dequeue" /\ queue # <<>>
    /\ current_path' = Head(queue).path
    /\ depth' = Head(queue).depth
    /\ queue' = Shift(queue)
    /\ processed' = IF Head(queue).path \in processed.once
                    THEN [processed EXCEPT !.again = @ \cup {Head(queue).path}]
                    ELSE [processed EXCEPT !.once = @ \cup {Head(queue).path}]
    /\ pc' = "tables1"
    /\ calls' = navigate_to_page("rootUrl", Head(queue).path, Len(Head(queue).path) + 1)
    /\ page' = AtState
    /\ UNCHANGED <<maxDepth, seen_set, crud_operations, formData, clickableElements,
                   unitOut, testVars, et, ef, observed, rootReport, reported>>
    /\ UNCHANGED <<outputSummaryPageActions, outputMcpConfig, serverVars, inflight>>

\* queue.shift() and a navigate_to_page that throws, with the error swallowed
\* and the item processed all the same
NavigateFails_Swallowed ==
    /\ pc = "dequeue" /\ queue # <<>>
    /\ current_path' = Head(queue).path
    /\ depth' = Head(queue).depth
    /\ queue' = Shift(queue)
    /\ processed' = [processed EXCEPT !.failed = TRUE]
    /\ pc' = "tables1"
    /\ \E failAt \in 0..Len(Head(queue).path) :
          calls' = navigate_to_page("rootUrl", Head(queue).path, failAt)
    /\ page' = [page EXCEPT !.url = "other"]
    /\ UNCHANGED <<maxDepth, seen_set, crud_operations, formData, clickableElements,
                   unitOut, testVars, et, ef, observed, rootReport, reported>>
    /\ UNCHANGED <<outputSummaryPageActions, outputMcpConfig, serverVars, inflight>>

\* queue.shift() and a navigate_to_page that throws: main rejects, and
\* main().catch logs the error
NavigateFails ==
    /\ pc = "dequeue" /\ queue # <<>>
    /\ current_path' = Head(queue).path
    /\ depth' = Head(queue).depth
    /\ queue' = Shift(queue)
    /\ processed' = [processed EXCEPT !.failed = TRUE]
    /\ pc' = "aborted"
    /\ \E failAt \in 0..Len(Head(queue).path) :
          calls' = navigate_to_page("rootUrl", Head(queue).path, failAt)
    /\ page' = [page EXCEPT !.url = "other"]
    /\ UNCHANGED <<maxDepth, seen_set, crud_operations, formData,
                   clickableElements, unitOut, testVars, et, ef, observed,
                   rootReport, reported>>
    /\ UNCHANGED <<outputSummaryPageActions, outputMcpConfig, serverVars, inflight>>

\* the loop condition fails: "Crawling completed!" and the writeFileSync of
\* the corpus
LoopExit ==
    /\ pc = "dequeue" /\ queue = <<>>
    /\ pc' = "generate"
    /\ UNCHANGED <<mainVars, testVars, et, ef, observed, rootReport, reported>>
    /\ outputSummaryPageActions' = [written |-> TRUE, records |-> crud_operations]
    /\ UNCHANGED <<outputMcpConfig, serverVars, browserVars>>

\* what callChatGPT(crud_operations) of main may do: return the text of the
\* completion, or throw (PROMPT.txt unreadable, the API call fails, no
\* content in the completion)
GenerationOutcomes == {"returned", "threw"}

\* the try block around callChatGPT with the handler left out: the
\* exception leaves main before stagehand.close()
AfterGeneration_Uncaught(outcome) == IF outcome = "threw" THEN "done" ELSE "close"

\* where main goes after the try/catch around callChatGPT: on to
\* stagehand.close() whatever happened
AfterGeneration(outcome) == "close"

\* the try/catch after the loop: callChatGPT, the writeFileSync of
\* outputMcpConfig.json, or console.error of the failure
Generate ==
    /\ pc = "generate"
    /\ \E outcome \in GenerationOutcomes :
          /\ pc' = AfterGeneration(outcome)
          /\ outputMcpConfig' = IF outcome = "returned" THEN "mcpConfig"
                                ELSE outputMcpConfig
          /\ stderr' = IF outcome = "threw"
                       THEN stderr \cup {"Failed to generate MCP config"}
                       ELSE stderr
    /\ UNCHANGED <<mainVars, testVars, et, ef, observed, rootReport, reported>>
    /\ UNCHANGED <<outputSummaryPageActions, dpc, client, loadedConfig,
                   registeredTools, serverTools, pageActions, inv, stdout,
                   browserVars>>

\* await stagehand.close() at the end of main; when it throws main is
\* rejected and main().catch writes the error
CloseSession ==
    /\ pc = "close"
    /\ \E result \in {"returned", "threw"} :
          /\ calls' = <<Call("close", "stagehand", <<>>, result)>>
          /\ page' = IF result = "returned" THEN [url |-> "closed", overlay |-> FALSE]
                     ELSE page
          /\ stderr' = IF result = "threw" THEN stderr \cup {"close failed"}
                       ELSE stderr
    /\ pc' = "done"
    /\ UNCHANGED <<mainVars, testVars, et, ef, observed, rootReport, reported>>
    /\ UNCHANGED <<outputSummaryPageActions, outputMcpConfig, dpc, client,
                   loadedConfig, registeredTools, serverTools, pageActions, inv,
                   stdout, inflight>>

\* extractTabularData: the first observe and containers.forEach
TabQuery1 ==
    /\ pc = "tables1"
    /\ \E a \in Answers(TabElems) :
          /\ observed' = observed + Len(a.elems)
          /\ IF a.threw
             THEN /\ et' = EtIdle
                  /\ pc' = "forms"
                  /\ ef' = EfCall("main", {})
             ELSE /\ et' = TabPass1(a.elems, EtIdle)
                  /\ pc' = "tables2"
                  /\ ef' = ef
          /\ rootReport' =
                IF current_path = <<>>
                THEN Track([rootReport EXCEPT
                        !.first = SelectorsOf(a.elems),
                        !.firstLikely = {a.elems[i].selector : i \in
                                           {j \in DOMAIN a.elems : LikelyContainer(a.elems[j])}}])
                ELSE rootReport
    /\ calls' = <<>>
    /\ UNCHANGED <<mainVars, testVars, reported, page>>
    /\ UNCHANGED <<outputSummaryPageActions, outputMcpConfig, serverVars, inflight>>

\* extractTabularData: the second observe, dataCollections.forEach, the return,
\* and main's push of the READ records
TabQuery2 ==
    /\ pc = "tables2"
    /\ \E a \in Answers(TabElems) :
          /\ observed' = observed + Len(a.elems)
          /\ LET tabularData == IF a.threw THEN et.tabularData
                                ELSE TabPass2(a.elems, et).tabularData
             IN crud_operations' = crud_operations \o ReadRecords(tabularData, current_path)
          /\ rootReport' =
                IF current_path = <<>>
                THEN Track([rootReport EXCEPT !.second = SelectorsOf(a.elems)])
                ELSE rootReport
    /\ et' = EtIdle
    /\ pc' = "forms"
    /\ ef' = EfCall("main", {})
    /\ UNCHANGED <<maxDepth, queue, seen_set, current_path, depth, formData,
                   clickableElements, processed, unitOut, testVars, reported>>
    /\ UNCHANGED <<outputSummaryPageActions, outputMcpConfig, serverVars, browserVars>>

(***************************************************************************)
(* extractFormData                                                          *)
(***************************************************************************)
\* return formData, from the end of the function or from its catch block: the
\* locals of the call go out of scope
Return(e) == [EfIdle EXCEPT !.pc = "ret", !.caller = e.caller, !.formData = e.formData]

\* an observe of extractFormData threw: the catch block logs the error, and
\* the function returns formData as it is
Catch(e) == [Return(e) EXCEPT !.threw = TRUE]

\* where extractFormData goes when the container loop of a pass is over
AfterPass(e) ==
    IF e.pending # <<>> THEN [e EXCEPT !.pc = "inputs"]
    ELSE IF e.pass = 3 THEN Return(e)
    ELSE [e EXCEPT !.pc = "query", !.pass = e.pass + 1]

\* the observe for visible modal elements; isModalOpen only selects the text
\* of the next instruction, which does not bind the oracle's answer
EfModalQuery ==
    /\ ef.pc = "modalq"
    /\ \E modalElements \in PresenceAnswers :
          /\ observed' = observed + Reported(modalElements)
          /\ ef' = IF modalElements = "throw" THEN Catch(ef)
                   ELSE [ef EXCEPT !.pc = "query", !.pass = 1]
    /\ UNCHANGED <<pc, mainVars, testVars, et, rootReport, reported>>
    /\ UNCHANGED <<outputSummaryPageActions, outputMcpConfig, serverVars, browserVars>>

\* the observe for forms, input groups or search elements (pass 1, 2, 3)
EfContainerQuery ==
    /\ ef.pc = "query"
    /\ \E a \in FormAnswers :
          /\ observed' = observed + Len(a.elems)
          /\ ef' = IF a.threw THEN Catch(ef)
                   ELSE AfterPass([ef EXCEPT !.pending =
                            SkipToQueried(a.elems, ef.pass, ef.seenSelectors)])
          /\ rootReport' = NotQuiet(a.elems)
    /\ UNCHANGED <<pc, mainVars, testVars, et, reported>>
    /\ UNCHANGED <<outputSummaryPageActions, outputMcpConfig, serverVars, browserVars>>

\* the nested observe for the inputs of the container at the head of the loop,
\* the input loop and the push of the form
EfInputQuery ==
    /\ ef.pc = "inputs"
    /\ \E a \in Answers(InputElems) :
          /\ observed' = observed + Len(a.elems)
          /\ rootReport' = NotQuiet(a.elems)
          /\ IF a.threw
             THEN /\ ef' = Catch(ef)
                  /\ reported' = reported
             ELSE LET c == Head(ef.pending)
                      col == CollectInputs(a.elems, ef.pass,
                                 [inputs |-> <<>>, used |-> ef.usedInputSelectors])
                      keep == Retained(col.inputs)
                      seen == IF keep THEN ef.seenSelectors \cup {c.selector}
                              ELSE ef.seenSelectors
                  IN /\ ef' = AfterPass(
                              [ef EXCEPT
                                 !.formData = IF keep
                                              THEN Append(@, FormEntity(c, ef.pass, col.inputs))
                                              ELSE @,
                                 !.seenSelectors = seen,
                                 !.usedInputSelectors = col.used,
                                 !.pending = SkipToQueried(Tail(@), ef.pass, seen)])
                     /\ reported' =
                           IF ef.caller = "unit"
                           THEN Append(reported,
                                   [container |-> c.selector,
                                    inputs |-> [i \in DOMAIN a.elems |-> a.elems[i].selector]])
                           ELSE reported
    /\ UNCHANGED <<pc, mainVars, testVars, et>>
    /\ UNCHANGED <<outputSummaryPageActions, outputMcpConfig, serverVars, browserVars>>

\* return to main, and main's push of the form records
EfReturnMain ==
    /\ ef.pc = "ret" /\ ef.caller = "main"
    /\ formData' = ef.formData
    /\ crud_operations' = crud_operations \o FormRecords(ef.formData, current_path)
    /\ pc' = "clickables"
    /\ ef' = EfIdle
    /\ reported' = <<>>
    /\ UNCHANGED <<maxDepth, queue, seen_set, current_path, depth, clickableElements,
                   processed, unitOut, testVars, et, observed, rootReport>>
    /\ UNCHANGED <<outputSummaryPageActions, outputMcpConfig, serverVars, browserVars>>

(***************************************************************************)
(* extractClickableElements and testNavigationAndModals                     *)
(***************************************************************************)
ClickQuery ==
    /\ pc = "clickables"
    /\ \E a \in Answers(ClickElems) :
          /\ observed' = observed + Len(a.elems)
          /\ clickableElements' =
                extractClickableElements(a, FormInputSelectorsOf(formData))
          /\ rootReport' = NotQuiet(a.elems)
    /\ pc' = "test"
    /\ navigationElements' = <<>>
    /\ modalOperations' = <<>>
    /\ idx' = 1
    /\ tpc' = "click"
    /\ UNCHANGED <<maxDepth, queue, seen_set, crud_operations, current_path, depth,
                   formData, processed, unitOut, et, ef, reported>>
    /\ UNCHANGED <<outputSummaryPageActions, outputMcpConfig, serverVars, browserVars>>

NextElement ==
    /\ idx' = idx + 1
    /\ tpc' = "click"

\* "if (newUrl !== currentUrl)"
Navigated(newUrl, currentUrl) == newUrl # currentUrl

\* the click on the element under test and the URL comparison: the click
\* throws, or it returns with the session at some address
Clicked ==
    LET element == clickableElements[idx] IN
    \E result \in {"threw", "returned"}, newUrl \in {"state", "other"} :
       /\ calls' = <<Call("act", element.selector, element.description, result)>>
       /\ IF result = "threw"
          THEN NextElement /\ UNCHANGED <<navigationElements, page>>
          ELSE IF Navigated(newUrl, "state")
          THEN /\ navigationElements' = Append(navigationElements, element)
               /\ tpc' = "back"
               /\ idx' = idx
               /\ page' = [url |-> newUrl, overlay |-> FALSE]
          ELSE /\ tpc' = "modalq"
               /\ page' = [page EXCEPT !.url = newUrl]
               /\ UNCHANGED <<navigationElements, idx>>

\* act on the element under test, then the URL comparison
TestClick ==
    /\ pc = "test" /\ tpc = "click" /\ idx <= Len(clickableElements)
    /\ Clicked
    /\ UNCHANGED <<pc, mainVars, modalOperations, et, ef, observed, rootReport, reported>>
    /\ UNCHANGED <<outputSummaryPageActions, outputMcpConfig, serverVars, inflight>>

\* navigate_to_page(stagehand, currentUrl, []): it returns, or it throws and
\* the catch of the loop body logs the error
TestBack ==
    /\ pc = "test" /\ tpc = "back"
    /\ \E failAt \in 0..1 :
          LET replay == navigate_to_page("currentUrl", <<>>, failAt) IN
          /\ calls' = calls \o replay
          /\ page' = IF Threw(replay) THEN page ELSE AtState
    /\ NextElement
    /\ UNCHANGED <<pc, mainVars, navigationElements, modalOperations, et, ef,
                   observed, rootReport, reported>>
    /\ UNCHANGED <<outputSummaryPageActions, outputMcpConfig, serverVars, inflight>>

\* "if (modalContent.length > 0)" for a modal detected where none is reported
ModalDetected_Always(modalContent) == TRUE

\* "if (modalContent.length > 0)"
ModalDetected(modalContent) == Reported(modalContent) > 0

\* the observe for a modal after a click that left the URL unchanged
TestModalQuery ==
    /\ pc = "test" /\ tpc = "modalq"
    /\ \E modalContent \in PresenceAnswers :
          /\ observed' = observed + Reported(modalContent)
          /\ calls' = Append(calls, Call("observe", "modal", <<>>, modalContent))
          /\ page' = IF modalContent = "throw" THEN page
                     ELSE [page EXCEPT !.overlay = (modalContent = "some")]
          /\ IF modalContent # "throw" /\ ModalDetected(modalContent)
             THEN /\ ef' = EfCall("modal", FormSelectorsOf(formData))
                  /\ tpc' = "modalforms"
                  /\ idx' = idx
             ELSE NextElement /\ ef' = ef
    /\ UNCHANGED <<pc, mainVars, navigationElements, modalOperations, et,
                   rootReport, reported>>
    /\ UNCHANGED <<outputSummaryPageActions, outputMcpConfig, serverVars, inflight>>

ModalOperation(element, modalFormData) ==
    [trigger |-> [selector |-> element.selector, text |-> element.text,
                  type |-> element.type],
     forms |-> modalFormData,
     operation |-> "MODAL_INTERACTION"]

\* return of the modal's extractFormData, and the push of the modal operation
EfReturnModal ==
    /\ ef.pc = "ret" /\ ef.caller = "modal"
    /\ modalOperations' =
          Append(modalOperations, ModalOperation(clickableElements[idx], ef.formData))
    /\ tpc' = "close"
    /\ ef' = EfIdle
    /\ reported' = <<>>
    /\ UNCHANGED <<pc, mainVars, navigationElements, idx, et, observed, rootReport>>
    /\ UNCHANGED <<outputSummaryPageActions, outputMcpConfig, serverVars, browserVars>>

\* the attempt to close the modal: the click on closeButtons[0], or the
\* Escape key
Dismissal(closeButtons, first, result) ==
    IF Reported(closeButtons) > 0
    THEN Call("act", first.selector, first.description, result)
    ELSE Call("press", "Escape", <<>>, result)

\* the observe for close buttons, then the click on the first one or the
\* Escape key; an exception of any of them is caught by the loop body.  A
\* dismissal that returns has closed the overlay or not: nothing checks it
TestClose ==
    /\ pc = "test" /\ tpc = "close"
    /\ \E closeButtons \in PresenceAnswers, first \in CloseElems,
          result \in {"threw", "returned"}, open \in BOOLEAN :
          /\ observed' = observed + Reported(closeButtons)
          /\ calls' = Append(calls, Call("observe", "close", <<>>, closeButtons))
                        \o (IF closeButtons = "throw" THEN <<>>
                            ELSE <<Dismissal(closeButtons, first, result)>>)
          /\ page' = IF closeButtons # "throw" /\ result = "returned"
                     THEN [page EXCEPT !.overlay = open]
                     ELSE page
    /\ NextElement
    /\ UNCHANGED <<pc, mainVars, navigationElements, modalOperations, et, ef,
                   rootReport, reported>>
    /\ UNCHANGED <<outputSummaryPageActions, outputMcpConfig, serverVars, inflight>>

\* the return of testNavigationAndModals, the conversion of the modal
\* operations to records and the enqueue block; then back to the loop head
Synthesize ==
    /\ pc = "test" /\ tpc = "click" /\ idx > Len(clickableElements)
    /\ crud_operations' = crud_operations \o ModalRecords(modalOperations, current_path)
    /\ LET acc == Enqueue(navigationElements, current_path, depth, maxDepth,
                          [seen_set |-> seen_set, queue |-> queue])
       IN /\ seen_set' = acc.seen_set
          /\ queue' = acc.queue
    /\ pc' = "dequeue"
    /\ formData' = <<>>
    /\ clickableElements' = <<>>
    /\ navigationElements' = <<>>
    /\ modalOperations' = <<>>
    /\ idx' = 0
    /\ tpc' = "idle"
    /\ UNCHANGED <<maxDepth, current_path, depth, processed, unitOut, et, ef, observed,
                   rootReport, reported>>
    /\ UNCHANGED <<outputSummaryPageActions, outputMcpConfig, serverVars, browserVars>>

Next ==
    \/ Dequeue \/ NavigateFails \/ LoopExit \/ Generate \/ CloseSession
    \/ TabQuery1 \/ TabQuery2
    \/ EfModalQuery \/ EfContainerQuery \/ EfInputQuery \/ EfReturnMain
    \/ ClickQuery \/ TestClick \/ TestBack \/ TestModalQuery \/ EfReturnModal
    \/ TestClose \/ Synthesize

Spec == Init /\ [][Next]_vars

(***************************************************************************)
(* The crawl when every browser action of the path replay returns: the     *)
(* loop of main runs on, one awaited call after the other.                  *)
(***************************************************************************)
NextReturning ==
    \/ Dequeue \/ LoopExit \/ Generate \/ CloseSession
    \/ TabQuery1 \/ TabQuery2
    \/ EfModalQuery \/ EfContainerQuery \/ EfInputQuery \/ EfReturnMain
    \/ ClickQuery \/ TestClick \/ TestBack \/ TestModalQuery \/ EfReturnModal
    \/ TestClose \/ Synthesize

LiveSpec == Init /\ [][NextReturning]_vars /\ WF_vars(NextReturning)

(***************************************************************************)
(* The crawl with the click of the test pass taken as a call that is       *)
(* issued and later returns, and the filechooser handler that              *)
(* initializeStagehand registers on the page.                              *)
(***************************************************************************)
\* "await stagehand.page.act(...)" of the test loop is issued
ActIssue ==
    /\ pc = "test" /\ tpc = "click" /\ idx <= Len(clickableElements)
    /\ tpc' = "clicking"
    /\ inflight' = inflight \cup {"act"}
    /\ UNCHANGED <<pc, mainVars, navigationElements, modalOperations, idx, et, ef,
                   observed, rootReport, reported, page, calls>>
    /\ UNCHANGED <<outputSummaryPageActions, outputMcpConfig, serverVars>>

\* the click opened a file chooser: the handler runs and awaits
\* fileChooser.setFiles([])
FileChooserOpened ==
    /\ pc = "test" /\ tpc = "clicking"
    /\ "setFiles" \notin inflight
    /\ stdout' = stdout \cup {"File chooser opened - automatically closing with empty file"}
    /\ inflight' = inflight \cup {"setFiles"}
    /\ UNCHANGED <<pc, mainVars, testVars, et, ef, observed, rootReport, reported,
                   page, calls>>
    /\ UNCHANGED <<outputSummaryPageActions, outputMcpConfig, dpc, client, loadedConfig, registeredTools,
                   serverTools, pageActions, inv, stderr>>

\* fileChooser.setFiles([]) settles
SetFilesReturn ==
    /\ "setFiles" \in inflight
    /\ inflight' = inflight \ {"setFiles"}
    /\ UNCHANGED <<pc, mainVars, testVars, et, ef, observed, rootReport, reported,
                   page, calls>>
    /\ UNCHANGED <<outputSummaryPageActions, outputMcpConfig, serverVars>>

\* the act of the test loop settles, then the URL comparison
ActReturn ==
    /\ pc = "test" /\ tpc = "clicking"
    /\ inflight' = inflight \ {"act"}
    /\ Clicked
    /\ UNCHANGED <<pc, mainVars, modalOperations, et, ef, observed, rootReport, reported>>
    /\ UNCHANGED <<outputSummaryPageActions, outputMcpConfig, serverVars>>

NextInFlight ==
    \/ Dequeue \/ NavigateFails \/ LoopExit \/ Generate \/ CloseSession
    \/ TabQuery1 \/ TabQuery2
    \/ EfModalQuery \/ EfContainerQuery \/ EfInputQuery \/ EfReturnMain
    \/ ClickQuery \/ ActIssue \/ FileChooserOpened \/ SetFilesReturn \/ ActReturn
    \/ TestBack \/ TestModalQuery \/ EfReturnModal \/ TestClose \/ Synthesize

SpecInFlight == Init /\ [][NextInFlight]_vars

(***************************************************************************)
(* The test pass of the root state when the form pass returned one form of *)
(* one input and the clickable pass two clickables: testNavigationAndModals *)
(* with its modal form extractions, and main's synthesis after it.          *)
(***************************************************************************)
\* the results of the form pass considered: one container of the primary
\* pass with one input
PageForms ==
    {<<FormEntity(c, 1, <<FormInput(Elem(<<"#b">>, <<"email">>), 1)>>)>> : c \in FormElems}

InitModal ==
    /\ maxDepth \in 0..MaxDepthBound
    /\ queue = <<>>
    /\ seen_set = {page_hash(JSONstringify(<<>>))}
    /\ current_path = <<>>
    /\ depth = 0
    /\ formData \in PageForms
    /\ crud_operations = FormRecords(formData, <<>>)
    /\ clickableElements =
          extractClickableElements(
             Answer(<<Elem(<<"#a">>, <<"button">>), Elem(<<"#A">>, <<"button">>)>>),
             FormInputSelectorsOf(formData))
    /\ navigationElements = <<>>
    /\ modalOperations = <<>>
    /\ idx = 1
    /\ tpc = "click"
    /\ pc = "test"
    /\ et = EtIdle
    /\ ef = EfIdle
    /\ observed = 0
    /\ processed = [once |-> {<<>>}, again |-> {}, failed |-> FALSE]
    /\ rootReport = OtherRoot
    /\ reported = <<>>
    /\ unitOut = NoUnitOut
    /\ outputSummaryPageActions = NoFile
    /\ outputMcpConfig = "none"
    /\ page = AtState
    /\ calls = <<>>
    /\ inflight = {}
    /\ ServerOff

NextModal ==
    \/ TestClick \/ TestBack \/ TestModalQuery
    \/ EfModalQuery \/ EfContainerQuery \/ EfInputQuery \/ EfReturnModal
    \/ TestClose \/ Synthesize

SpecModal == InitModal /\ [][NextModal]_vars

(***************************************************************************)
(* The frontier of a site with three navigating clickables per state: the  *)
(* loop of main with the passes of one state taken by their outcome, no     *)
(* table, no form, and every clickable a navigation whose return succeeds.  *)
(***************************************************************************)
FrontierElems ==
    {Elem(<<"#a">>, <<"button">>), Elem(<<"#A">>, <<"button">>),
     Elem(<<"#b">>, <<"button">>)}

\* the passes of main between navigate_to_page and the enqueue block
Passes ==
    /\ pc = "tables1"
    /\ \E a \in Answers(FrontierElems) :
          /\ observed' = observed + Len(a.elems)
          /\ clickableElements' = extractClickableElements(a, {})
          /\ navigationElements' = extractClickableElements(a, {})
          /\ idx' = Len(extractClickableElements(a, {})) + 1
    /\ modalOperations' = <<>>
    /\ tpc' = "click"
    /\ pc' = "test"
    /\ UNCHANGED <<maxDepth, queue, seen_set, crud_operations, current_path, depth,
                   formData, processed, unitOut, et, ef, rootReport, reported>>
    /\ UNCHANGED <<outputSummaryPageActions, outputMcpConfig, serverVars, browserVars>>

NextFrontier ==
    \/ Dequeue \/ NavigateFails \/ LoopExit \/ Generate \/ CloseSession
    \/ Passes \/ Synthesize

\* the head of the crawling loop for any value of config.maxDepth
InitFrontier ==
    /\ maxDepth \in ParsedDepths
    /\ CrawlerStart
    /\ ServerOff
    /\ pc = "dequeue"

SpecFrontier == InitFrontier /\ [][NextFrontier]_vars

(***************************************************************************)
(* Unit harness of the form classifier: one call of determineFormOperation, *)
(* or one call of extractFormData followed by main's synthesis of the       *)
(* form records.                                                            *)
(***************************************************************************)
InitUnit == InitCommon /\ pc = "unit"

UnitDetermine ==
    /\ pc = "unit" /\ ef.pc = "idle"
    /\ \E formType \in FormTypes :
          unitOut' = [formType |-> formType,
                      operation |-> determineFormOperation(formType)]
    /\ pc' = "unitdone"
    /\ UNCHANGED <<maxDepth, queue, seen_set, crud_operations, current_path, depth,
                   formData, clickableElements, processed, testVars, et, ef, observed,
                   rootReport, reported>>
    /\ UNCHANGED <<outputSummaryPageActions, outputMcpConfig, serverVars, browserVars>>

UnitCall ==
    /\ pc = "unit" /\ ef.pc = "idle"
    /\ \E existingFormSelectors \in {{}, {<<"#a">>}} :
          ef' = EfCall("unit", existingFormSelectors)
    /\ UNCHANGED <<pc, mainVars, testVars, et, observed, rootReport, reported>>
    /\ UNCHANGED <<outputSummaryPageActions, outputMcpConfig, serverVars, browserVars>>

EfReturnUnit ==
    /\ ef.pc = "ret" /\ ef.caller = "unit"
    /\ formData' = ef.formData
    /\ crud_operations' = crud_operations \o FormRecords(ef.formData, current_path)
    /\ pc' = "unitdone"
    /\ ef' = EfIdle
    /\ reported' = <<>>
    /\ UNCHANGED <<maxDepth, queue, seen_set, current_path, depth, clickableElements,
                   processed, unitOut, testVars, et, observed, rootReport>>
    /\ UNCHANGED <<outputSummaryPageActions, outputMcpConfig, serverVars, browserVars>>

NextUnit ==
    \/ UnitDetermine \/ UnitCall
    \/ EfModalQuery \/ EfContainerQuery \/ EfInputQuery \/ EfReturnUnit

SpecUnit == InitUnit /\ [][NextUnit]_vars

(***************************************************************************)
(* The dispatcher, dynamicMcpServer.ts: loading of the two artifacts.       *)
(***************************************************************************)
ToolNames == {"t1", "t2"}

\* a tool declaration; its input_schema only shapes the argument validation
ToolConfig(name, description) == [name |-> name, description |-> description]

ToolDecls ==
    {ToolConfig("t1", "d1"), ToolConfig("t1", "d2"), ToolConfig("t2", "d1")}

\* declaration k of a tool declaration artifact: the second one repeats the
\* name of the first
ToolDecl(k) ==
    CASE k % 3 = 1 -> ToolConfig("t1", "d1")
      [] k % 3 = 2 -> ToolConfig("t1", "d2")
      [] OTHER -> ToolConfig("t2", "d1")

\* what the tool declaration artifact may hold
ConfigArtifacts ==
    {[kind |-> "unreadable"], [kind |-> "malformed"]}
        \cup {[kind |-> "json", server |-> sv, tools |-> [k \in 1..N |-> ToolDecl(k)]] :
                sv \in BOOLEAN, N \in 0..MaxTools}

\* record k of a page action artifact, as the crawler writes them
CorpusRecord(k) ==
    CASE k % 3 = 1 ->
            [operation |-> "READ", type |-> "table", selector |-> <<"#a">>,
             elementCount |-> 1, path |-> <<>>]
      [] k % 3 = 2 ->
            [operation |-> "DELETE", type |-> "delete", selector |-> <<"#b">>,
             elementCount |-> 1,
             inputs |-> <<[type |-> "submit", required |-> FALSE, placeholder |-> <<>>,
                           label |-> <<"submit">>, options |-> <<>>]>>,
             path |-> <<Step(<<"#a">>, TRUE), Step(<<"#b">>, FALSE)>>]
      [] OTHER ->
            [operation |-> "CREATE", type |-> "other", selector |-> <<"#a">>,
             elementCount |-> 1,
             inputs |-> <<[type |-> "text", required |-> TRUE, placeholder |-> <<>>,
                           label |-> <<"email">>, options |-> <<>>]>>,
             path |-> <<Step(<<"#A">>, TRUE)>>]

\* what the page action artifact may hold
CorpusArtifacts ==
    {[kind |-> "unreadable"], [kind |-> "malformed"]}
        \cup {[kind |-> "json", records |-> [k \in 1..K |-> CorpusRecord(k)]] :
                K \in 0..MaxCorpus}

\* the registry of the server object: registeredTools and the handlers of
\* this.server
Registry == [registeredTools |-> registeredTools, serverTools |-> serverTools]

\* registerTool that registers a handler for a name it already holds
registerTool_Again(reg, tool) ==
    [registeredTools |-> reg.registeredTools \cup {tool.name},
     serverTools |-> Append(reg.serverTools, tool)]

\* registerTool(name, description, inputSchema)
registerTool(reg, tool) ==
    IF tool.name \in reg.registeredTools THEN reg
    ELSE [registeredTools |-> reg.registeredTools \cup {tool.name},
          serverTools |-> Append(reg.serverTools, tool)]

\* registerToolsFromConfig(tools); this.server.registerTool throws in the
\* call for tool number failAt, if that call is made
RECURSIVE registerToolsFromConfig(_, _, _)
registerToolsFromConfig(tools, reg, failAt) ==
    IF tools = <<>> THEN [reg |-> reg, threw |-> FALSE]
    ELSE IF failAt = 1 /\ Head(tools).name \notin reg.registeredTools
         THEN [reg |-> reg, threw |-> TRUE]
         ELSE registerToolsFromConfig(Tail(tools), registerTool(reg, Head(tools)),
                                      failAt - 1)

\* where main goes after a load: on to the next step, or process.exit(1)
AfterLoad_Serve(threw, next) == next

AfterLoad(threw, next) == IF threw THEN "exited" ELSE next

\* main starts: new DynamicMcpServer()
InitServer ==
    /\ maxDepth = 1
    /\ pc = "off"
    /\ CrawlerStart
    /\ dpc = "loadConfig"
    /\ client \in {"main", "module"}
    /\ loadedConfig = None
    /\ registeredTools = {}
    /\ serverTools = <<>>
    /\ pageActions = <<>>
    /\ inv = [r \in Requests |-> InvIdle]
    /\ stdout = {}
    /\ stderr = {}

crawlerVars == <<pc, mainVars, testVars, et, ef, observed, rootReport, reported,
                 outputSummaryPageActions, outputMcpConfig, browserVars>>

\* a program that imports the class registers a tool itself
RegisterTool ==
    /\ client = "module" /\ dpc \in {"loadConfig", "loadActions"}
    /\ \E tool \in ToolDecls :
          LET reg == registerTool(Registry, tool)
          IN /\ registeredTools' = reg.registeredTools
             /\ serverTools' = reg.serverTools
    /\ UNCHANGED <<crawlerVars, dpc, client, loadedConfig, pageActions, inv, stdout,
                   stderr>>

\* loadConfigFromFile(configFile) and the try/catch of main around it
LoadConfig ==
    /\ dpc = "loadConfig"
    /\ \E artifact \in ConfigArtifacts, failAt \in 0..MaxTools :
          IF artifact.kind # "json"
          THEN /\ dpc' = AfterLoad(TRUE, "loadActions")
               /\ stderr' = stderr \cup {"Error loading config"}
               /\ UNCHANGED <<loadedConfig, registeredTools, serverTools>>
          ELSE LET fresh == IF artifact.server
                            THEN [Registry EXCEPT !.serverTools = <<>>]
                            ELSE Registry
                   out == registerToolsFromConfig(artifact.tools, fresh, failAt)
               IN /\ loadedConfig' = Some([tools |-> artifact.tools])
                  /\ registeredTools' = out.reg.registeredTools
                  /\ serverTools' = out.reg.serverTools
                  /\ dpc' = AfterLoad(out.threw, "loadActions")
                  /\ stderr' = stderr \cup {IF out.threw THEN "Error loading config"
                                             ELSE "Loaded tools from config file"}
    /\ UNCHANGED <<crawlerVars, client, pageActions, inv, stdout>>

\* loadPageActionsFromFile(pageActionsFile) and the try/catch of main
LoadPageActions ==
    /\ dpc = "loadActions"
    /\ \E artifact \in CorpusArtifacts :
          IF artifact.kind # "json"
          THEN /\ dpc' = AfterLoad(TRUE, "start")
               /\ pageActions' = pageActions
               /\ stderr' = stderr \cup {"Error loading page actions"}
          ELSE /\ dpc' = AfterLoad(FALSE, "start")
               /\ pageActions' = artifact.records
               /\ stderr' = stderr \cup {"Loaded page actions from file"}
    /\ UNCHANGED <<crawlerVars, client, loadedConfig, registeredTools, serverTools,
                   inv, stdout>>

\* await server.start()
Start ==
    /\ dpc = "start"
    /\ dpc' = "serving"
    /\ UNCHANGED <<crawlerVars, client, loadedConfig, registeredTools, serverTools,
                   pageActions, inv, stdout, stderr>>

(***************************************************************************)
(* The dispatcher: universalHandler and executePageAction.                  *)
(***************************************************************************)
\* findToolConfig that makes up a declaration for every name
findToolConfig_Named(name) == Some(ToolConfig(name, "d1"))

\* this.loadedConfig.tools.find(tool => tool.name === name) || null
findToolConfig(name) ==
    IF loadedConfig = None THEN None
    ELSE LET tools == loadedConfig[1].tools
             hits == {k \in DOMAIN tools : tools[k].name = name}
         IN IF hits = {} THEN None
            ELSE Some(tools[CHOOSE k \in hits : \A m \in hits : k <= m])

\* what the relevance oracle may do: throw, return no content, return text
\* that parseInt does not read as a number, or return a number
OracleAnswers ==
    {[kind |-> k, index |-> 0] : k \in {"throw", "empty", "nan"}}
        \cup {[kind |-> "number", index |-> i] : i \in (0 - 1)..Len(pageActions)}

\* callChatGPT(message): the index, or an exception
callChatGPT(answer) ==
    IF answer.kind = "number" THEN [threw |-> FALSE, index |-> answer.index]
    ELSE [threw |-> TRUE, index |-> 0]

\* the bounds check of universalHandler, accepting the length as an index
InRange_Inclusive(index, length) == ~(index < 0 \/ index > length)

\* the bounds check of universalHandler
InRange(index, length) == ~(index < 0 \/ index >= length)

\* selectedIndex after the try/catch around callChatGPT
SelectedIndex(answer) ==
    LET r == callChatGPT(answer) IN
    IF r.threw THEN None
    ELSE IF InRange(r.index, Len(pageActions)) THEN Some(r.index) ELSE None

\* array[index] of JavaScript, index counted from 0: undefined off the end
At(array, index) ==
    IF index + 1 \in DOMAIN array THEN Some(array[index + 1]) ELSE None

\* the default page action of executePageAction
DefaultPageAction(toolConfig) ==
    [operation |-> "UNSPECIFIED", type |-> "default", selector |-> <<"body">>,
     elementCount |-> 1,
     textContent |-> <<toolConfig.name, ": ", toolConfig.description>>,
     path |-> <<>>]

\* the page action executePageAction works on; None when it throws
\* "Invalid page action index"
ChosenPageAction(pageActionIndex, toolConfig) ==
    IF pageActionIndex = None THEN Some(DefaultPageAction(toolConfig))
    ELSE IF pageActionIndex[1] < 0 \/ pageActionIndex[1] >= Len(pageActions) THEN None
    ELSE Some(pageActions[pageActionIndex[1] + 1])

NotFound(name) ==
    [error |-> <<"Tool configuration not found for: ", name>>,
     handled_by |-> "universalHandler"]

selectedPageAction(selectedIndex) ==
    IF selectedIndex = None THEN None ELSE At(pageActions, selectedIndex[1])

\* the object universalHandler returns when executePageAction returned
Handled(i, executionResult) ==
    [ok |-> TRUE, name |-> i.name,
     selectedPageAction |-> selectedPageAction(i.selectedIndex),
     executionResult |-> executionResult]

\* the object universalHandler returns when executePageAction threw
HandledError(i, message) ==
    [ok |-> FALSE, name |-> i.name,
     selectedPageAction |-> selectedPageAction(i.selectedIndex),
     error |-> message]

\* executePageAction whose catch block throws the error on to the handler
Failed_Thrown(i, call) ==
    [i EXCEPT !.pc = "returned", !.events = Append(@, call), !.answer = None,
              !.result = Some(HandledError(i, call))]

\* the return of executePageAction from its catch block, and of the handler
Failed(i, call) ==
    [i EXCEPT !.pc = "returned", !.events = Append(@, call), !.answer = None,
              !.result = Some(Handled(i, [success |-> FALSE,
                                          pageAction |-> i.pageAction[1],
                                          error |-> call]))]

\* call returned: on to the next one
Went(i, call, next) ==
    [i EXCEPT !.pc = next, !.events = Append(@, call), !.answer = None]

\* the handler of a registered tool is called: universalHandler up to its
\* first await
Arrive(r) ==
    /\ dpc = "serving" /\ inv[r].pc \in {"idle", "returned"}
    /\ \E name \in {serverTools[k].name : k \in DOMAIN serverTools} :
          LET toolConfig == findToolConfig(name) IN
          inv' = [inv EXCEPT ![r] =
                    IF toolConfig = None
                    THEN [InvIdle EXCEPT !.pc = "returned", !.name = name,
                                         !.result = Some(NotFound(name))]
                    ELSE [InvIdle EXCEPT !.pc = "oracle", !.name = name,
                                         !.toolConfig = toolConfig,
                                         !.events = <<"prompt", "callChatGPT">>]]
    /\ UNCHANGED <<crawlerVars, dpc, client, loadedConfig, registeredTools,
                   serverTools, pageActions, stdout, stderr>>

\* the relevance oracle answers; executePageAction up to its first await
OracleReturns(r) ==
    /\ inv[r].pc = "oracle"
    /\ \E answer \in OracleAnswers :
          LET selectedIndex == SelectedIndex(answer)
              i == [inv[r] EXCEPT !.answer = Some(answer),
                                  !.selectedIndex = selectedIndex]
              pageAction == ChosenPageAction(selectedIndex, i.toolConfig[1])
          IN inv' = [inv EXCEPT ![r] =
                       IF pageAction = None
                       THEN [i EXCEPT !.pc = "returned",
                                      !.result = Some(HandledError(i,
                                                    "Invalid page action index"))]
                       ELSE [i EXCEPT !.pc = "init", !.pageAction = pageAction]]
    /\ UNCHANGED <<crawlerVars, dpc, client, loadedConfig, registeredTools,
                   serverTools, pageActions, stdout, stderr>>

\* the frame of a step of one invocation
invFrame == <<crawlerVars, dpc, client, loadedConfig, registeredTools, serverTools,
              pageActions>>

\* initializeStagehand(config, true): new Stagehand and stagehand.init()
InitializeStagehand(r) ==
    /\ inv[r].pc = "init"
    /\ \E returned \in BOOLEAN :
          inv' = [inv EXCEPT ![r] =
                    IF returned
                    THEN [Went(inv[r], "initializeStagehand", "login")
                            EXCEPT !.session = "open"]
                    ELSE Failed(inv[r], "initializeStagehand")]
    /\ UNCHANGED <<invFrame, stdout, stderr>>

\* executePageAction that calls navigate_to_page for every path
AfterLogin_Always(pageAction) == "replay"

\* where executePageAction goes after the login: navigate_to_page only for
\* a path with steps
AfterLogin(pageAction) == IF Len(pageAction.path) > 0 THEN "replay" ELSE "agent"

\* login(stagehand, url, username, password)
Login(r) ==
    /\ inv[r].pc = "login"
    /\ \E returned \in BOOLEAN :
          inv' = [inv EXCEPT ![r] =
                    IF returned
                    THEN Went(inv[r], "login", AfterLogin(inv[r].pageAction[1]))
                    ELSE Failed(inv[r], "login")]
    /\ UNCHANGED <<invFrame, stdout, stderr>>

\* navigate_to_page(stagehand, rootUrl, pageAction.path): the goto of the
\* root (step 0), then the click of one step of the path
ReplayStep(r) ==
    /\ inv[r].pc = "replay"
    /\ LET i == inv[r]
           call == IF i.step = 0 THEN "goto" ELSE "act"
       IN \E returned \in BOOLEAN :
             inv' = [inv EXCEPT ![r] =
                       IF ~returned THEN Failed(i, call)
                       ELSE IF i.step = Len(i.pageAction[1].path)
                            THEN Went(i, call, "agent")
                            ELSE [Went(i, call, "replay") EXCEPT !.step = i.step + 1]]
    /\ UNCHANGED <<invFrame, stdout, stderr>>

\* the fields of an input of the page action that executePageAction reads
InputFieldsRead == {"description", "selector"}

\* input[field] of JavaScript put into a template string: the text
\* "undefined" for a field the object does not have
FieldText(input, field) ==
    IF field \in DOMAIN input THEN input[field] ELSE <<"undefined">>

\* inputContext of executePageAction: one line per input of the page action
inputContext(pageAction) ==
    IF "inputs" \in DOMAIN pageAction
    THEN [k \in DOMAIN pageAction.inputs |->
            <<"- ">> \o FieldText(pageAction.inputs[k], "description")
                \o <<" (selector: ">> \o FieldText(pageAction.inputs[k], "selector")
                \o <<")">>]
    ELSE <<<<"No inputs available.">>>>

\* agent.execute(...) whose exception reaches the outer catch block
AgentOutcome_Throws(i, returned) ==
    IF returned
    THEN [Went(i, "agent", "close")
            EXCEPT !.result = Some([actionResult |-> "agentResponse"])]
    ELSE Failed(i, "agent")

\* agent.execute(...) inside its own try/catch: actionResult is the agent's
\* response or the text of the failure
AgentOutcome(i, returned) ==
    [Went(i, "agent", "close")
       EXCEPT !.result = Some([actionResult |-> IF returned THEN "agentResponse"
                                                ELSE "Agent execution failed"])]

\* the action oracle works on the page
AgentExecute(r) ==
    /\ inv[r].pc = "agent"
    /\ \E returned \in BOOLEAN :
          inv' = [inv EXCEPT ![r] = AgentOutcome(inv[r], returned)]
    /\ UNCHANGED <<invFrame, stdout, stderr>>

\* stagehand.close() and the return of the result; a close that throws may
\* or may not have ended the session
Close(r) ==
    /\ inv[r].pc = "close"
    /\ LET i == inv[r] IN
       \E returned \in BOOLEAN, after \in {"open", "closed"} :
          inv' = [inv EXCEPT ![r] =
                    IF returned
                    THEN [i EXCEPT !.pc = "returned", !.session = "closed",
                                   !.events = Append(@, "close"),
                                   !.result = Some(Handled(i,
                                                [success |-> TRUE,
                                                 pageAction |-> i.pageAction[1],
                                                 currentUrl |-> "page.url()",
                                                 message |-> i.result[1].actionResult]))]
                    ELSE [Failed(i, "close") EXCEPT !.session = after]]
    /\ UNCHANGED <<invFrame, stdout, stderr>>

\* the filechooser callback installed by initializeStagehand runs while the
\* invocation works in its session: console.log
FileChooser(r) ==
    /\ inv[r].session = "open" /\ inv[r].pc \in {"login", "replay", "agent", "close"}
    /\ stdout' = stdout \cup {"File chooser opened - automatically closing with empty file"}
    /\ UNCHANGED <<invFrame, inv, stderr>>

NextServer ==
    \/ RegisterTool \/ LoadConfig \/ LoadPageActions \/ Start
    \/ \E r \in DOMAIN inv : Arrive(r)
    \/ \E r \in DOMAIN inv : OracleReturns(r)
    \/ \E r \in DOMAIN inv : InitializeStagehand(r)
    \/ \E r \in DOMAIN inv : Login(r)
    \/ \E r \in DOMAIN inv : ReplayStep(r)
    \/ \E r \in DOMAIN inv : AgentExecute(r)
    \/ \E r \in DOMAIN inv : Close(r)
    \/ \E r \in DOMAIN inv : FileChooser(r)

SpecServer == InitServer /\ [][NextServer]_vars

(***************************************************************************)
(* Properties.                                                              *)
(***************************************************************************)
Records == {crud_operations[i] : i \in DOMAIN crud_operations}

FormDerived(r) == "inputs" \in DOMAIN r

\* the number of steps of a path that open a new state
NewLinks(path) == Cardinality({k \in DOMAIN path : path[k].is_new_link})

\* the paths recorded in the visited set: the root and every enqueued path
RecordedPaths ==
    {<<>>} \cup processed.once \cup {queue[i].path : i \in DOMAIN queue}

\* C1: no two records of the corpus have the same (path, selector) pair.
C1_CorpusUnique ==
    \A i, j \in DOMAIN crud_operations :
        (/\ crud_operations[i].path = crud_operations[j].path
         /\ crud_operations[i].selector = crud_operations[j].selector) => i = j

\* C2: every record's path has at most maxDepth steps with is_new_link true,
\* and a step with is_new_link false only as the last step of a modal-derived
\* record.
C2_DepthBound ==
    \A r \in Records :
        /\ NewLinks(r.path) <= maxDepth
        /\ \A k \in DOMAIN r.path :
              ~r.path[k].is_new_link => (k = Len(r.path) /\ FormDerived(r))

\* a record of a state at the depth limit
C2_Witness ==
    /\ maxDepth >= 1
    /\ \E r \in Records : NewLinks(r.path) = maxDepth

C4_VisitedGrows ==
    /\ [](page_hash(JSONstringify(<<>>)) \in seen_set /\ processed.again = {})
    /\ [][seen_set \subseteq seen_set']_vars

C4_Witness ==
    /\ Cardinality(seen_set) >= 3
    /\ Cardinality(processed.once) >= 3

\* the paths derived so far: the recorded ones and the new paths of the
\* navigation elements of the state being processed
DerivedPaths ==
    RecordedPaths
        \cup {NewPath(current_path, navigationElements[i]) : i \in DOMAIN navigationElements}

\* C5: two derived paths have the same dedup key exactly when they are the
\* same step sequence.
C5_DedupExact ==
    \A P, Q \in DerivedPaths :
        (page_hash(JSONstringify(P)) = page_hash(JSONstringify(Q))) <=> (P = Q)

\* C6: at depth < maxDepth every navigation element gets exactly one new
\* frontier item (its path one step longer, depth + 1), and no record.
C6_OneItemPerNavigation ==
    [][(pc = "test" /\ pc' = "dequeue" /\ depth < maxDepth) =>
          \A i \in DOMAIN navigationElements :
              LET item == [path |-> NewPath(current_path, navigationElements[i]),
                           depth |-> depth + 1]
                  sel == navigationElements[i].selector
              IN /\ Cardinality({k \in DOMAIN queue' : queue'[k] = item}) = 1
                 /\ \A k \in DOMAIN queue : queue[k] # item
                 /\ \A k \in (Len(crud_operations) + 1)..Len(crud_operations') :
                       crud_operations'[k].path \notin
                           {Append(current_path, Step(sel, TRUE)),
                            Append(current_path, Step(sel, FALSE))}]_vars

\* C7: a modal operation whose overlay yielded one delete-type form adds no
\* frontier item and exactly one record, DELETE, on the state's path plus
\* one step (the trigger, is_new_link false).
C7_ModalDelete ==
    [][(pc = "test" /\ pc' = "dequeue") =>
          \A i \in DOMAIN modalOperations :
              LET op == modalOperations[i]
                  sel == op.trigger.selector
                  modalPath == Append(current_path, Step(sel, FALSE))
                  new == {k \in (Len(crud_operations) + 1)..Len(crud_operations') :
                            crud_operations'[k].path = modalPath}
              IN (Len(op.forms) = 1 /\ op.forms[1].type = "delete") =>
                    /\ Cardinality(new) = 1
                    /\ \A k \in new : crud_operations'[k].operation = "DELETE"
                    /\ \A k \in DOMAIN queue' :
                          queue'[k].path \notin
                              {modalPath, Append(current_path, Step(sel, TRUE))}]_vars

C7_Witness ==
    \E r \in Records :
        /\ r.operation = "DELETE" /\ r.type = "delete"
        /\ r.path # <<>>
        /\ ~r.path[Len(r.path)].is_new_link

\* the root state showed one container to the collection classifier, in its
\* first query, and nothing to the other classifiers
ScenarioA == OneContainerOnly(rootReport)

\* C8: a run over a root state with one table-like container, no forms and
\* no clickables ends with exactly one record: READ, no inputs, path [].
C8_ScenarioA ==
    (pc = "done" /\ ScenarioA) =>
        /\ Len(crud_operations) = 1
        /\ crud_operations[1].operation = "READ"
        /\ ~FormDerived(crud_operations[1])
        /\ crud_operations[1].path = <<>>
        /\ crud_operations[1].selector \in rootReport.first

C8_Witness ==
    /\ pc = "done" /\ ScenarioA
    /\ rootReport.second = rootReport.first

\* the table of the CRUD kinds
CrudTable(formType) ==
    IF formType \in {"search", "filter"} THEN "READ"
    ELSE IF formType \in {"delete", "remove", "unsubscribe"} THEN "DELETE"
    ELSE IF formType = "settings" THEN "UPDATE"
    ELSE "CREATE"

\* C9: determineFormOperation gives every form type the CRUD kind of the
\* table, and every form and form-derived record stores that kind.
C9_CrudTable ==
    /\ unitOut.formType # "none" => unitOut.operation = CrudTable(unitOut.formType)
    /\ \A i \in DOMAIN ef.formData :
          ef.formData[i].operation = CrudTable(ef.formData[i].type)
    /\ \A r \in Records : FormDerived(r) => r.operation = CrudTable(r.type)

\* a call returned a settings form and main stored its record as UPDATE
C9_Witness ==
    /\ pc = "unitdone"
    /\ \E r \in Records : FormDerived(r) /\ r.type = "settings" /\ r.operation = "UPDATE"

InputSelectors(form) == {form.inputs[k].selector : k \in DOMAIN form.inputs}

\* the first nested answer of this call that reported input x
FirstReport(x) ==
    CHOOSE n \in DOMAIN reported :
        /\ \E k \in DOMAIN reported[n].inputs : reported[n].inputs[k] = x
        /\ \A m \in 1..(n - 1) :
              \A k \in DOMAIN reported[m].inputs : reported[m].inputs[k] # x

ReportedInputs ==
    UNION {{reported[n].inputs[k] : k \in DOMAIN reported[n].inputs} : n \in DOMAIN reported}

\* C10: within one extractFormData call an input selector is in the inputs
\* of exactly one form, once: the form of the container that reported it
\* first.
C10_InputDedup ==
    /\ \A i, j \in DOMAIN ef.formData :
          \A k \in DOMAIN ef.formData[i].inputs, l \in DOMAIN ef.formData[j].inputs :
              ef.formData[i].inputs[k].selector = ef.formData[j].inputs[l].selector
                  => (i = j /\ k = l)
    /\ \A x \in ReportedInputs :
          \E i \in DOMAIN ef.formData :
              /\ x \in InputSelectors(ef.formData[i])
              /\ ef.formData[i].selector = reported[FirstReport(x)].container

\* two containers reported the same input, in one pass or in two
C10_Witness ==
    /\ ef.pc = "ret"
    /\ \E m, n \in DOMAIN reported :
          /\ m < n
          /\ reported[m].container # reported[n].container
          /\ \E x \in ReportedInputs :
                /\ \E k \in DOMAIN reported[m].inputs : reported[m].inputs[k] = x
                /\ \E k \in DOMAIN reported[n].inputs : reported[n].inputs[k] = x

\* C19: a run aborted by a path replay failure after records were appended
\* leaves outputSummaryPageActions.json holding exactly those records.
C19_TruncatedCorpus ==
    (pc = "aborted" /\ crud_operations # <<>>) =>
        outputSummaryPageActions = [written |-> TRUE, records |-> crud_operations]

\* C20: a path replay that fails in the loop of main aborts the run: no
\* query is made and no record appended for the item, and no step follows.
C20_ReplayFailureAborts ==
    /\ [](processed.failed => pc = "aborted")
    /\ [][/\ pc # "aborted"
          /\ pc' = "aborted" =>
                /\ pc = "dequeue"
                /\ crud_operations' = crud_operations
                /\ observed' = observed
                /\ et' = et /\ ef' = ef
                /\ clickableElements' = clickableElements]_vars

\* the replay of a later item failed, after records of an earlier one
C20_Witness ==
    /\ pc = "aborted"
    /\ crud_operations # <<>>
    /\ processed.once # {}

\* an answer of the relevance oracle that selects no record of the corpus
InvalidAnswer(answer) ==
    \/ answer.kind \in {"throw", "empty", "nan"}
    \/ answer.index < 0
    \/ answer.index >= Len(pageActions)

\* C11: whenever the relevance oracle throws, returns no content, returns a
\* non-number or returns an index outside [0, K), for a corpus of any size K,
\* the handler takes the choice as none and goes on with the default record
\* (operation UNSPECIFIED, empty path); an invocation with no choice returns
\* a result object of a handler that did not throw, with selectedPageAction
\* null and the default record as the executed page action.
C11_RelevanceFailure ==
    \A r \in DOMAIN inv :
        LET i == inv[r] IN
        /\ (i.answer # None /\ InvalidAnswer(i.answer[1])) =>
              /\ i.pc = "init"
              /\ i.selectedIndex = None
              /\ i.pageAction = Some(DefaultPageAction(i.toolConfig[1]))
              /\ i.pageAction[1].operation = "UNSPECIFIED"
              /\ i.pageAction[1].path = <<>>
        /\ (i.pc = "returned" /\ i.toolConfig # None /\ i.selectedIndex = None) =>
              /\ i.result # None
              /\ i.result[1].ok
              /\ i.result[1].selectedPageAction = None
              /\ i.result[1].executionResult.pageAction
                    = DefaultPageAction(i.toolConfig[1])

\* an index equal to the size of a corpus that is not empty was answered
C11_Witness ==
    \E r \in DOMAIN inv :
        /\ inv[r].pc = "init" /\ pageActions # <<>>
        /\ inv[r].answer = Some([kind |-> "number", index |-> Len(pageActions)])
        /\ \E q \in DOMAIN inv :
              /\ inv[q].pc = "returned" /\ inv[q].selectedIndex = None
              /\ inv[q].toolConfig # None
              /\ inv[q].events[Len(inv[q].events)] = "close"

\* the loaded configuration declares a tool of that name
Declared(name) ==
    /\ loadedConfig # None
    /\ \E k \in DOMAIN loadedConfig[1].tools : loadedConfig[1].tools[k].name = name

\* C12: an invocation of a name the loaded configuration does not declare has
\* returned the 'Tool configuration not found' error object when the handler
\* gives up control for the first time; it made no call at all (no prompt
\* built from the corpus, no relevance oracle call), it has no browser
\* session, and the step that returns it leaves the corpus as it was.
C12_ConfigurationNotFound ==
    /\ [](\A r \in DOMAIN inv :
            (inv[r].pc # "idle" /\ ~Declared(inv[r].name)) =>
                /\ inv[r].pc = "returned"
                /\ inv[r].result = Some(NotFound(inv[r].name))
                /\ inv[r].events = <<>>
                /\ inv[r].session = "none"
                /\ inv[r].selectedIndex = None /\ inv[r].pageAction = None)
    /\ [][\A r \in DOMAIN inv :
            (inv'[r] # inv[r] /\ inv'[r].result = Some(NotFound(inv'[r].name))) =>
                pageActions' = pageActions]_vars

\* an undeclared name was invoked while another invocation holds a session
C12_Witness ==
    \E r, q \in DOMAIN inv :
        /\ inv[r].pc = "returned" /\ ~Declared(inv[r].name)
        /\ inv[r].result = Some(NotFound(inv[r].name))
        /\ inv[q].session = "open" /\ pageActions # <<>>

\* the invocations between their start and their return
Executing == {r \in DOMAIN inv : inv[r].pc \notin {"idle", "returned"}}

\* C13: at no time are two invocations between their start and their return.
C13_OneAtATime == Cardinality(Executing) <= 1

\* C14: an invocation that has returned holds no open browser session,
\* whatever its outcome was.
C14_SessionClosedOnReturn ==
    \A r \in DOMAIN inv : inv[r].pc = "returned" => inv[r].session # "open"

\* the calls of a replay of the path: none for the empty path, else the goto
\* of the root and one click for each step
ReplayCalls(path) ==
    IF path = <<>> THEN <<>> ELSE <<"goto">> \o [k \in DOMAIN path |-> "act"]

\* the calls of an invocation on which every call returned
AllCalls(pageAction) ==
    <<"prompt", "callChatGPT", "initializeStagehand", "login">>
        \o ReplayCalls(pageAction.path) \o <<"agent", "close">>

IsPrefix(s, t) == Len(s) <= Len(t) /\ s = SubSeq(t, 1, Len(s))

\* C15: the calls an invocation of a registered tool has made are, in this
\* order, the session creation, the login, the replay of the chosen record's
\* path from the root (no call at all for an empty path) and then the action
\* oracle; an invocation in which the session creation, the login or a step
\* of the replay threw has not called the action oracle.
C15_StepOrder ==
    \A r \in DOMAIN inv :
        LET i == inv[r] IN
        i.pageAction # None =>
            /\ IsPrefix(i.events, AllCalls(i.pageAction[1]))
            /\ (/\ i.pc = "returned"
                /\ ~i.result[1].executionResult.success
                /\ i.result[1].executionResult.error
                      \in {"initializeStagehand", "login", "goto", "act"}) =>
                  \A k \in DOMAIN i.events : i.events[k] # "agent"

\* one invocation replayed a path of two steps and reached the action oracle
\* and the close, another one ended at a login that threw
C15_Witness ==
    \E r, q \in DOMAIN inv :
        /\ inv[r].pc = "returned" /\ inv[r].pageAction # None
        /\ Len(inv[r].pageAction[1].path) = 2
        /\ inv[r].events = AllCalls(inv[r].pageAction[1])
        /\ inv[q].pc = "returned" /\ inv[q].pageAction # None
        /\ inv[q].events[Len(inv[q].events)] = "login"

\* C16: registering a name that is in registeredTools changes neither
\* registeredTools nor the handlers of the server and raises no exception,
\* even when the registration at the server would throw; no name ever has two
\* handlers; and an invocation works with the first declaration of its name
\* in the loaded configuration.
C16_DuplicateIsNoOp ==
    /\ \A tool \in ToolDecls :
          tool.name \in registeredTools =>
              /\ registerTool(Registry, tool) = Registry
              /\ registerToolsFromConfig(<<tool>>, Registry, 1)
                    = [reg |-> Registry, threw |-> FALSE]
    /\ \A j, k \in DOMAIN serverTools :
          serverTools[j].name = serverTools[k].name => j = k
    /\ \A r \in DOMAIN inv :
          inv[r].toolConfig # None =>
              \E k \in DOMAIN loadedConfig[1].tools :
                  /\ loadedConfig[1].tools[k] = inv[r].toolConfig[1]
                  /\ \A m \in 1..(k - 1) :
                        loadedConfig[1].tools[m].name # inv[r].name

\* the configuration declares a name twice with different descriptions, the
\* name has a handler, and an invocation of it is under way
C16_Witness ==
    /\ loadedConfig # None
    /\ \E j, k \in DOMAIN loadedConfig[1].tools :
          /\ j < k
          /\ loadedConfig[1].tools[j].name = loadedConfig[1].tools[k].name
          /\ loadedConfig[1].tools[j] # loadedConfig[1].tools[k]
          /\ \E r \in DOMAIN inv :
                /\ inv[r].name = loadedConfig[1].tools[j].name
                /\ inv[r].toolConfig = Some(loadedConfig[1].tools[j])
                /\ inv[r].pc = "returned"

\* the diagnostics that report a load that threw
LoadErrors == {"Error loading config", "Error loading page actions"}

\* C17: main is at server.start(), or past it, only if both artifacts were
\* read and parsed, the configuration is stored, every tool it declares is
\* registered (with a handler at the server, when main is the only one who
\* registers) and no load reported an error; a load that reported an error,
\* also one that registered some of the tools before it threw, has ended the
\* process.
C17_NoPartialLoad ==
    /\ dpc \in {"start", "serving"} =>
          /\ stderr = {"Loaded tools from config file", "Loaded page actions from file"}
          /\ loadedConfig # None
          /\ \A k \in DOMAIN loadedConfig[1].tools :
                /\ loadedConfig[1].tools[k].name \in registeredTools
                /\ client = "main" =>
                      \E j \in DOMAIN serverTools :
                          serverTools[j].name = loadedConfig[1].tools[k].name
    /\ stderr \cap LoadErrors # {} => dpc = "exited"

\* the registration of the second name threw after the first tool of the
\* artifact was registered
C17_Witness ==
    /\ client = "main"
    /\ dpc = "exited" /\ "Error loading config" \in stderr
    /\ loadedConfig # None /\ serverTools # <<>>
    /\ \E k \in DOMAIN loadedConfig[1].tools :
          loadedConfig[1].tools[k].name \notin registeredTools

\* C18: while the dispatcher runs nothing but results is written to standard
\* output.
C18_NoDiagnosticsOnStdout == stdout = {}

\* C21: an extractor in which an oracle call threw returns an empty list,
\* also when its earlier oracle calls had produced entities (stated for
\* extractFormData at its return).
C21_FailedExtractorIsEmpty ==
    (ef.pc = "ret" /\ ef.threw) => ef.formData = <<>>

\* C28: navigate_to_page goes to the root address first and then clicks the
\* steps of the path in index order, each once; the call after a failed
\* one is never made and the failure reaches the caller (main aborts exactly
\* when the last call of the replay threw); for the empty path, as in the
\* return to the tested page, the goto is its only call.
C28_ReplayInOrder ==
    [][/\ (pc = "dequeue" /\ pc' \in {"tables1", "aborted"}) =>
            LET path == Head(queue).path
                n == Len(calls')
            IN /\ n >= 1 /\ n <= Len(path) + 1
               /\ calls'[1].op = "goto" /\ calls'[1].target = "rootUrl"
               /\ \A i \in 2..n : /\ calls'[i].op = "act"
                                  /\ calls'[i].target = path[i - 1].intra_page_path
               /\ \A i \in 1..(n - 1) : calls'[i].result = "returned"
               /\ (pc' = "tables1") <=>
                      (calls'[n].result = "returned" /\ n = Len(path) + 1)
               /\ (pc' = "aborted") <=> (calls'[n].result = "threw")
       /\ (pc = "test" /\ tpc = "back" /\ tpc' # "back") =>
            \E result \in {"threw", "returned"} :
               calls' = Append(calls, Call("goto", "currentUrl", <<>>, result))
      ]_vars

\* the replay of a path of two different steps was abandoned at its first
\* step
C28_Witness ==
    /\ pc = "aborted"
    /\ Len(current_path) = 2
    /\ current_path[1].intra_page_path # current_path[2].intra_page_path
    /\ Len(calls) = 2
    /\ calls[2].result = "threw"

\* C22: when a step of the test of one clickable throws, that clickable is
\* in neither navigationElements nor modalOperations when the loop goes on
\* to the next one.
C22_ThrowingTestDropsElement ==
    [][(pc = "test" /\ idx' = idx + 1 /\ Threw(calls')) =>
          LET element == clickableElements[idx] IN
             /\ \A i \in DOMAIN navigationElements' :
                    navigationElements'[i].selector # element.selector
             /\ \A i \in DOMAIN modalOperations' :
                    modalOperations'[i].trigger.selector # element.selector
      ]_vars

\* C23: immediately before each clickable of a state is activated the
\* session is in the state being processed, at the address recorded at the
\* start and with no overlay open, whatever the earlier tests did.
C23_NoContamination ==
    (pc = "test" /\ tpc = "click" /\ idx <= Len(clickableElements))
        => page = AtState

\* C24: the discriminator never clicks, and never hands on for a frontier
\* path, an element that matches the logout vocabulary or whose selector is
\* an input selector of a form of the state.
C24_NeverActivatesExcluded ==
    pc = "test" =>
        /\ \A i \in DOMAIN calls :
               calls[i].op = "act" =>
                  /\ ~isLogoutElement(Elem(calls[i].target, calls[i].description))
                  /\ calls[i].target \notin FormInputSelectorsOf(formData)
        /\ \A i \in DOMAIN navigationElements :
               /\ ~isLogoutElement(navigationElements[i])
               /\ navigationElements[i].selector \notin FormInputSelectorsOf(formData)

\* C30: after a clickable is classified as a modal interaction exactly one
\* dismissal is attempted before the next clickable is tested.
C30_OneDismissal ==
    [][(pc = "test" /\ tpc = "close" /\ tpc' # "close") =>
          Cardinality({i \in (Len(calls) + 1)..Len(calls') :
                          calls'[i].op \in {"act", "press"}}) = 1
      ]_vars

EnqueuedAs(item) ==
    CHOOSE n \in DOMAIN navigationElements :
        navigationElements[n].selector = item.path[Len(item.path)].intra_page_path

\* C27: the frontier is consumed by one policy for the whole run: every
\* dequeue takes the most recently enqueued item that remains.  The queue
\* changes only by a dequeue, which takes its first item, and by the
\* enqueue block, which leaves the old items in place behind the new ones
\* and puts a later enqueued item before an earlier one.
C27_OnePolicy ==
    [][/\ queue' # queue => pc \in {"dequeue", "test"}
       /\ (pc = "dequeue" /\ pc' \in {"tables1", "aborted"}) =>
             /\ current_path' = queue[1].path
             /\ depth' = queue[1].depth
             /\ queue' = SubSeq(queue, 2, Len(queue))
       /\ (pc = "test" /\ pc' = "dequeue") =>
             LET k == Len(queue') - Len(queue) IN
                /\ k >= 0
                /\ \A j \in 1..Len(queue) : queue'[k + j] = queue[j]
                /\ \A i, j \in 1..k :
                       i < j => EnqueuedAs(queue'[i]) > EnqueuedAs(queue'[j])
      ]_vars

\* three items wait, the two of the state processed last before the one
\* left from its parent
C27_Witness ==
    /\ pc = "dequeue"
    /\ Len(queue) = 3
    /\ Len(queue[1].path) = 2
    /\ Len(queue[2].path) = 2
    /\ Len(queue[3].path) = 1

\* the passes of main over one state, in the order of their calls
PassRank(p) ==
    CASE p \in {"tables1", "tables2"} -> 1
      [] p = "forms" -> 2
      [] p = "clickables" -> 3
      [] p = "test" -> 4

Passing == {"tables1", "tables2", "forms", "clickables", "test"}

C26_OneInFlight == Cardinality(inflight) <= 1

\* a record of the corpus made from a form of the page of the state
PageLevel(r) == FormDerived(r) /\ r.path = current_path

\* a record of the corpus made from a form of a modal of the state
ModalDerived(r) ==
    /\ FormDerived(r)
    /\ Len(r.path) = Len(current_path) + 1
    /\ SubSeq(r.path, 1, Len(current_path)) = current_path
    /\ ~r.path[Len(r.path)].is_new_link

\* C31: in the records of one state no modal-derived record has the
\* selector of a page-level form record, and the synthesis appends records
\* only for forms of modal operations: a modal interaction whose form
\* extraction returned no form appends none.
C31_ModalExcludesPage ==
    [][(pc = "test" /\ pc' = "dequeue") =>
          /\ \A r1, r2 \in {crud_operations'[k] : k \in DOMAIN crud_operations'} :
                (PageLevel(r1) /\ ModalDerived(r2)) => r1.selector # r2.selector
          /\ SubSeq(crud_operations', 1, Len(crud_operations)) = crud_operations
          /\ \A k \in (Len(crud_operations) + 1)..Len(crud_operations') :
                \E m \in DOMAIN modalOperations :
                   /\ crud_operations'[k].path =
                         Append(current_path,
                                Step(modalOperations[m].trigger.selector, FALSE))
                   /\ \E f \in DOMAIN modalOperations[m].forms :
                         crud_operations'[k].selector = modalOperations[m].forms[f].selector
          /\ (\A m \in DOMAIN modalOperations : modalOperations[m].forms = <<>>) =>
                crud_operations' = crud_operations
      ]_vars

\* the state has a page-level form record and a modal record, with the
\* oracle budget used up
C31_Witness ==
    /\ pc = "dequeue"
    /\ \E i, j \in DOMAIN crud_operations :
          PageLevel(crud_operations[i]) /\ ModalDerived(crud_operations[j])
    /\ processed.once = {<<>>}
    /\ observed = MaxObserved

\* C32: every form extractFormData holds or returns, from any pass, has at
\* least one input, and so has every form-derived record; a form is pushed
\* only with inputs that no earlier container had claimed, so a container
\* whose reported inputs were all claimed before is not returned.
C32_FormsHaveInputs ==
    [][/\ \A i \in DOMAIN ef'.formData :
             /\ ef'.formData[i].inputs # <<>>
             /\ ef'.formData[i].elementCount >= 1
       /\ \A k \in DOMAIN crud_operations' :
             FormDerived(crud_operations'[k]) => crud_operations'[k].inputs # <<>>
       /\ (ef.pc = "inputs" /\ ef'.formData # ef.formData) =>
             LET form == ef'.formData[Len(ef'.formData)] IN
                /\ Len(ef'.formData) = Len(ef.formData) + 1
                /\ \A j \in DOMAIN form.inputs :
                      form.inputs[j].selector \notin ef.usedInputSelectors
      ]_vars

\* extractFormData returns one form after two containers were queried, the
\* second of which reported only an input the first had claimed
C32_Witness ==
    /\ ef.pc = "ret" /\ ef.caller = "unit"
    /\ Len(ef.formData) = 1
    /\ Len(reported) = 2
    /\ reported[2].inputs # <<>>
    /\ reported[1].container # reported[2].container
    /\ \A j \in DOMAIN reported[2].inputs :
          \E k \in DOMAIN reported[1].inputs : reported[1].inputs[k] = reported[2].inputs[j]

\* a description with one of the deletion words
DeletionWord(description) ==
    \/ has(description, "delete") \/ has(description, "remove")
    \/ includes(description, Unsubscribe)

\* a description with the name of a form type other than the deletion ones
OtherTypeName(description) ==
    \E name \in {"login", "registration", "search", "contact", "settings",
                  "checkout", "feedback", "newsletter", "filter"} :
       has(description, name)

\* C33: a form pushed by the primary pass whose description has the word
\* delete, remove or unsubscribe and the name of no other form type has
\* operation DELETE, and so has its record.
C33_DeletionWordsDelete ==
    [][(ef.pc = "inputs" /\ ef.pass = 1 /\ ef'.formData # ef.formData) =>
          LET form == ef'.formData[Len(ef'.formData)]
              description == toLowerCase(form.textContent)
          IN (DeletionWord(description) /\ ~OtherTypeName(description)) =>
                /\ form.operation = "DELETE"
                /\ FormRecord(form, current_path).operation = "DELETE"
      ]_vars

\* what holds of every frontier item: its depth is the length of its path
\* and every step opens a new state; an item other than the root item is
\* within maxDepth and extends the path of a processed item by one step
ItemOk(item, max, once) ==
    /\ item.depth = Len(item.path)
    /\ \A k \in DOMAIN item.path : item.path[k].is_new_link
    /\ item.path # <<>> =>
          /\ max # NaN /\ item.depth <= max
          /\ SubSeq(item.path, 1, Len(item.path) - 1) \in once

\* the same with the root item held to the depth bound and to a parent
ItemOk_Root(item, max, once) ==
    /\ item.depth = Len(item.path)
    /\ \A k \in DOMAIN item.path : item.path[k].is_new_link
    /\ max # NaN /\ item.depth <= max
    /\ \E parent \in once : Len(item.path) = Len(parent) + 1
                              /\ SubSeq(item.path, 1, Len(parent)) = parent

\* C34 as stated: every item ever in the frontier queue has depth equal to
\* the length of its path, depth <= maxDepth, only steps with is_new_link
\* true, and the path of an already processed item plus one step.
C34_EveryItem ==
    \A i \in DOMAIN queue : ItemOk_Root(queue[i], maxDepth, processed.once)

\* C34, for the items the enqueue block adds: every frontier item has depth
\* equal to the length of its path and only steps with is_new_link true;
\* every item but the root item has depth <= maxDepth and the path of an
\* already processed item plus one step; nothing is enqueued while a state
\* is processed for which depth < maxDepth is false (maxDepth zero,
\* negative or not a number included).
C34_EnqueuedItems ==
    [][/\ \A i \in DOMAIN queue : ItemOk(queue[i], maxDepth, processed.once)
       /\ \A i \in DOMAIN queue' : ItemOk(queue'[i], maxDepth', processed'.once)
       /\ (pc = "test" /\ pc' = "dequeue"
             /\ (maxDepth = NaN \/ depth >= maxDepth)) => queue' = queue
      ]_vars

\* an item at the depth bound waits behind nothing older, in a run with
\* maxDepth 2
C34_Witness ==
    /\ pc = "dequeue"
    /\ maxDepth = 2
    /\ queue # <<>>
    /\ queue[1].depth = 2

\* the invocations that returned with a record the relevance oracle selected
SelectedReturned ==
    {r \in DOMAIN inv : inv[r].pc = "returned" /\ inv[r].selectedIndex # None}

\* the record executed and the record reported are pageActions[i]
C35_RecordIsSelected ==
    \A r \in SelectedReturned :
        LET res == inv[r].result[1]
            rec == pageActions[inv[r].selectedIndex[1] + 1]
        IN /\ "executionResult" \in DOMAIN res
           /\ res.selectedPageAction = Some(rec)
           /\ res.executionResult.pageAction = rec

\* C35: when the relevance oracle returned an index in range, the record
\* executed and the record reported are pageActions[i], and the result
\* carries the final page URL and the outcome text of the action oracle.
C35_ResultCarriesOutcome ==
    /\ C35_RecordIsSelected
    /\ \A r \in SelectedReturned :
          {"currentUrl", "message"} \subseteq DOMAIN inv[r].result[1].executionResult

\* no step of an invocation changes the corpus
C35_CorpusReadOnly == [][dpc = "serving" => pageActions' = pageActions]_vars

\* an invocation with a selected record returned the URL and the outcome
C35_Carried ==
    \E r \in SelectedReturned :
        {"currentUrl", "message"} \subseteq DOMAIN inv[r].result[1].executionResult

\* C36: every name in registeredTools has a handler registered on the
\* McpServer instance that start() will connect.
C36_EveryRegisteredHasHandler ==
    \A name \in registeredTools :
        \E k \in DOMAIN serverTools : serverTools[k].name = name

\* the invocations that have returned
Returned == {r \in DOMAIN inv : inv[r].pc = "returned"}

\* the result of invocation r has the ok = true shape
OkShape(r) ==
    LET res == inv[r].result[1]
    IN "ok" \in DOMAIN res /\ res.ok /\ "executionResult" \in DOMAIN res

\* every invocation of a registered tool returns ok = true
C37_AlwaysOk == \A r \in Returned : OkShape(r)

\* C37: for a registered tool whose declaration is found in the loaded
\* configuration, universalHandler returns ok = true and never the
\* ok = false shape; a failure of session creation, login or path replay is
\* reported inside executionResult as success = false.
C37_ConfiguredAlwaysOk ==
    \A r \in Returned : inv[r].toolConfig # None => OkShape(r)

\* an invocation whose login threw returned ok = true with success = false
C37_Witness ==
    \E r \in Returned :
        /\ OkShape(r)
        /\ inv[r].events[Len(inv[r].events)] = "login"
        /\ ~inv[r].result[1].executionResult.success

\* the calls whose exception the catch block of executePageAction turns
\* into a result
CaughtCalls == {"initializeStagehand", "login", "goto", "act", "close"}

\* the calls of an invocation that ran executePageAction to its end
CompleteRun(pageAction) ==
    <<"prompt", "callChatGPT", "initializeStagehand", "login">>
        \o (IF Len(pageAction.path) > 0
            THEN <<"goto">> \o [k \in 1..Len(pageAction.path) |-> "act"]
            ELSE <<>>)
        \o <<"agent", "close">>

\* C38: executePageAction returns success = true exactly when session
\* creation, login and path replay completed and the session was closed
\* without error, whatever the action oracle did; a result with
\* success = false names the call that threw, which is never agent.execute.
C38_SuccessIffCompleted ==
    \A r \in Returned :
        LET i == inv[r]
            res == i.result[1]
        IN "executionResult" \in DOMAIN res =>
              LET er == res.executionResult IN
              IF er.success
              THEN /\ i.events = CompleteRun(er.pageAction)
                   /\ i.session = "closed"
                   /\ er.message \in {"agentResponse", "Agent execution failed"}
              ELSE /\ er.error \in CaughtCalls
                   /\ er.error = i.events[Len(i.events)]
                   /\ i.events # CompleteRun(er.pageAction) \/ er.error = "close"

\* agent.execute threw and the result has success = true with the text of
\* the failure as its message
C38_Witness ==
    \E r \in Returned :
        /\ OkShape(r)
        /\ inv[r].result[1].executionResult.success
        /\ inv[r].result[1].executionResult.message = "Agent execution failed"

\* main is past its loop
PastLoop == pc \in {"generate", "close", "done"}

\* C39: in a run that reaches an empty frontier the corpus file is written
\* exactly once, when the loop ends and before the generation call; a
\* failure of the generation call is caught, leaves the written corpus
\* unchanged, and stagehand.close() is still called before main ends.
C39_CorpusWrittenOnce ==
    [][/\ (outputSummaryPageActions' # outputSummaryPageActions \/ pc' = "generate") =>
              /\ pc = "dequeue" /\ queue = <<>> /\ pc' = "generate"
              /\ ~outputSummaryPageActions.written
              /\ outputSummaryPageActions' =
                    [written |-> TRUE, records |-> crud_operations]
       /\ PastLoop => /\ outputSummaryPageActions' = outputSummaryPageActions
                      /\ outputSummaryPageActions.written
       /\ pc = "generate" => pc' = "close"
       /\ pc' = "done" =>
              /\ pc = "close"
              /\ Len(calls') = 1 /\ calls'[1].op = "close"
              /\ calls'[1].result = "returned" => page'.url = "closed"
      ]_vars

\* the generation call failed, the corpus of a crawl that found an
\* operation is on file and the session was closed
C39_Witness ==
    /\ pc = "done" /\ crud_operations # <<>>
    /\ "Failed to generate MCP config" \in stderr
    /\ outputMcpConfig = "none"
    /\ outputSummaryPageActions = [written |-> TRUE, records |-> crud_operations]
    /\ page.url = "closed"

\* the records of the corpus file that carry inputs
PersistedForms ==
    {n \in DOMAIN outputSummaryPageActions.records :
        "inputs" \in DOMAIN outputSummaryPageActions.records[n]}

\* C40: every field of a record's inputs that the dispatcher reads when it
\* builds the action oracle instruction is a field that the synthesizer
\* writes into the inputs of the records it persists.
C40_InterchangeSufficient ==
    \A n \in PersistedForms :
        LET r == outputSummaryPageActions.records[n] IN
        /\ \A k \in DOMAIN r.inputs : InputFieldsRead \subseteq DOMAIN r.inputs[k]
        /\ \A k \in DOMAIN r.inputs :
              \A t \in DOMAIN inputContext(r)[k] : inputContext(r)[k][t] # "undefined"

====
